---------------------------- MODULE Spec2Model ----------------------------
(***************************************************************************)
(* Authentication and session core of the Daily Summarizer service:        *)
(* the credential store, the verification and password-reset token stores, *)
(* the registration / login service (server/auth.ts) and the auth routes   *)
(* that call it.                                                           *)
(*                                                                         *)
(* Strings that the code inspects (emails, passwords, names) are tuples of *)
(* one-character strings, so that toLowerCase, trim, length and the email  *)
(* regular expression are computed as the code computes them.              *)
(* Time is counted in hours.                                               *)
(***************************************************************************)
EXTENDS Integers, Sequences, FiniteSets, TLC

\* ------------------------------------------------------------------ bounds
\* user rows in the table that registerUser inserted
MaxUsers == 1

\* rows ever inserted into table topics
MaxTopics == 2
\* tokens (verification and reset together) generated in one behaviour
MaxTokens == 2
\* clock advances in one behaviour
MaxTicks == 1

\* ------------------------------------------------------- program constants
\* auth.ts:68   24 * 60 * 60 * 1000 ms
VerifyTTL == 24
\* auth.ts:248  60 * 60 * 1000 ms
ResetTTL == 1
\* auth.ts:96, auth.ts:307
MinPasswordLength == 8

\* ------------------------------------------------------------------ inputs
EmailAlice    == <<"a", "@", "x", ".", "y">>
EmailAliceUp  == <<"A", "@", "x", ".", "y">>
EmailBob      == <<"b", "@", "x", ".", "y">>
\* the address seeded by the migration, as written there (mixed case)
SeedAdminEmail == <<"D", "@", "P", ".", "o">>
EmailSeedLow  == <<"d", "@", "p", ".", "o">>
EmailNoAt     == <<"a", "x", ".", "y">>
Missing       == << >>

EmailInputs == {EmailAlice, EmailAliceUp, EmailBob, SeedAdminEmail,
                EmailSeedLow, EmailNoAt, Missing}

PwGood  == <<"p", "a", "s", "s", "w", "o", "r", "d">>
PwOther == <<"l", "e", "t", "m", "e", "i", "n", "1", "2">>
PwShort == <<"s", "e", "c", "r", "e", "t", "7">>
PasswordInputs == {PwGood, PwOther, PwShort, Missing}

NameAl     == <<"A", "l">>
NameBoPad  == <<" ", "B", "o", " ">>
NameBlank  == <<" ">>

\* the bodies sent to POST /register: <<email, password, firstName, lastName>>
RegisterInputs ==
  {<<EmailAlice,   PwGood,  NameAl,    NameBoPad>>,
   <<EmailAliceUp, PwGood,  NameAl,    NameBoPad>>,
   <<EmailBob,     PwOther, NameAl,    NameBoPad>>,
   <<EmailSeedLow, PwGood,  NameAl,    NameBoPad>>,
   <<EmailAlice,   PwShort, NameAl,    NameBoPad>>,
   <<EmailBob,     PwGood,  NameBlank, NameAl>>,
   <<EmailBob,     PwGood,  NameAl,    Missing>>,
   <<EmailNoAt,    PwGood,  NameAl,    NameBoPad>>}

\* the bodies sent to POST /login: <<email, password>>
LoginInputs ==
  {<<EmailAlice,   PwGood>>,
   <<EmailAliceUp, PwGood>>,
   <<EmailAlice,   PwOther>>,
   <<EmailBob,     PwOther>>,
   <<EmailBob,     PwGood>>,
   <<SeedAdminEmail, PwGood>>,
   <<EmailSeedLow, PwGood>>,
   <<EmailNoAt,    PwGood>>,
   <<EmailAlice,   Missing>>}

\* the emails sent to POST /forgot-password
ForgotInputs == {EmailAlice, EmailAliceUp, EmailBob, SeedAdminEmail, EmailNoAt, Missing}

\* the new passwords sent to POST /reset-password
NewPasswordInputs == {PwGood, PwOther, PwShort, Missing}

Sessions == {"s1"}

\* requests in flight at one time, where their statements interleave
Procs == {"p1", "p2"}

\* the steps by which the clock may advance: the lifetime of a reset token and
\* the lifetime of a verification token
TickSteps == {ResetTTL, VerifyTTL}

\* ------------------------------------------------------- string primitives
\* String.prototype.toLowerCase on the characters in use
LowerChar(c) ==
  CASE c = "A" -> "a"
    [] c = "B" -> "b"
    [] c = "D" -> "d"
    [] c = "P" -> "p"
    [] OTHER -> c

toLowerCase(s) == [i \in 1..Len(s) |-> LowerChar(s[i])]

RECURSIVE TrimLeft(_)
TrimLeft(s) == IF s # << >> /\ Head(s) = " " THEN TrimLeft(Tail(s)) ELSE s

RECURSIVE TrimRight(_)
TrimRight(s) ==
  IF s # << >> /\ s[Len(s)] = " " THEN TrimRight(SubSeq(s, 1, Len(s) - 1)) ELSE s

\* String.prototype.trim
Trim(s) == TrimRight(TrimLeft(s))

\* the class [^\s@]
PlainChar(c) == c \notin {" ", "@"}

\* /^[^\s@]+@[^\s@]+\.[^\s@]+$/.test(e)
EmailRegexTest(e) ==
  \E i \in 1..Len(e) : \E j \in 1..Len(e) :
    /\ 1 < i /\ i + 1 < j /\ j < Len(e)
    /\ e[i] = "@" /\ e[j] = "."
    /\ \A k \in 1..Len(e) : (k # i /\ k # j) => PlainChar(e[k])

\* JavaScript truthiness of a string: the empty string is falsy
Truthy(s) == s # << >>

\* `${first} ${last}`
JoinName(first, last) == first \o <<" ">> \o last

\* ---------------------------------------------------------------- password
\* bcrypt.hash(password, 10): a one-way image of the password (the salt is
\* not modelled: two hashes of one password verify alike)
hashPassword(p) == <<"$2b$10$", p>>

\* bcrypt.compare(password, hash)
verifyPassword(p, h) == h = hashPassword(p)

\* the hash literal of the seeded admin row: the image of no input password
SeedHash == <<"$2b$10$", <<"X", "q", "j", "T">>>>

\* ------------------------------------------------------------------- state
NoUser == [id |-> 0]
NoTime == -1

VARIABLES
  users,          \* table users: a set of rows
  vtokens,        \* table verification_tokens
  rtokens,        \* table password_reset_tokens
  nextUserId,     \* the serial of users.id
  nextToken,      \* the next value generateToken() returns
  now,            \* the clock (hours)
  ticks,          \* clock advances so far
  smtpConfigured, \* EMAIL_USER && EMAIL_PASSWORD || SMTP_USER && SMTP_PASS
  session,        \* session id -> req.session.user (NoUser when absent)
  resp,           \* the last response sent
  registered,     \* history: the credentials set by register and still current
  usedTokens,     \* history: verification tokens accepted so far
  pc,             \* request in flight -> the statement it executes next
  loc,            \* request in flight -> its local variables
  settings,       \* table settings: a set of rows [key, value]
  topics,         \* table topics: a set of rows [id, userId, name]
  nextTopicId,    \* the serial of topics.id
  allowedDomains, \* table allowed_domains of the SSO revision: a set of rows
                  \* [id, domain, addedBy]
  nextDomainId,   \* the serial of allowed_domains.id
  authState,      \* session id -> req.session.authState (Missing when absent)
  resetCount,     \* history: reset token -> resets that succeeded with it
  issuedLog       \* history: the reset tokens returned, each with the reset
                  \* tokens returned for its user before the call began
                  \* (prior) and before the call returned (earlier)

vars == <<users, vtokens, rtokens, nextUserId, nextToken, now, ticks,
          smtpConfigured, session, resp, registered, usedTokens, settings,
          topics, nextTopicId, allowedDomains, nextDomainId, authState,
          pc, loc, resetCount, issuedLog>>

\* what only the interleaved requests change
raceVars == <<pc, loc, resetCount, issuedLog>>

\* what only the requests handled one at a time change
\* what the routes of topics and of the SSO revision change
sideVars == <<topics, nextTopicId, allowedDomains, nextDomainId, authState>>
seqVars == <<now, ticks, session, resp, registered, usedTokens, settings, sideVars>>

\* the row inserted by the migration that introduces password login
SeedAdminRow ==
  [id |-> 1, email |-> SeedAdminEmail, passwordHash |-> SeedHash,
   firstName |-> <<"D">>, lastName |-> <<"M", " ", "W">>,
   displayName |-> <<"D", " ", "M", " ", "W">>,
   role |-> "admin", emailVerified |-> TRUE, lastLoginAt |-> NoTime]

\* the address and the password given to scripts/create-test-admin.ts
TestAdminEmail == <<"t", "@", "x", ".", "y">>
PwAdmin == <<"T", "e", "s", "t", "P", "w", "1", "2", "3">>

\* the rows that were not inserted by registerUser
Preinstalled(u) == u.email \in {SeedAdminEmail, TestAdminEmail}

\* the rows that registerUser inserted
RegisteredRows(us) == {u \in us : ~Preinstalled(u)}

\* a response: the route, the HTTP status, the message or error text of the
\* body, the user object of the body (NoUser when none), the email of the
\* body (empty when none), the token the request presented (0 when none), and
\* the rows of the body when it is a list (empty when none)
Response(op, status, msg) ==
  [op |-> op, status |-> status, msg |-> msg, user |-> NoUser, email |-> << >>,
   token |-> 0, list |-> {}]

\* the response to a request that presented token
TokenResponse(op, status, msg, token) ==
  [Response(op, status, msg) EXCEPT !.token = token]

NoLocals == [op |-> "none"]

Init ==
  /\ users = {SeedAdminRow}
  /\ vtokens = {}
  /\ rtokens = {}
  /\ nextUserId = 2
  /\ nextToken = 1
  /\ now = 0
  /\ ticks = 0
  /\ smtpConfigured \in BOOLEAN
  /\ session = [s \in Sessions |-> NoUser]
  /\ resp = Response("none", 0, "")
  /\ registered = {}
  /\ usedTokens = {}
  /\ settings = {}
  /\ topics = {}
  /\ nextTopicId = 1
  /\ allowedDomains = {}
  /\ nextDomainId = 1
  /\ authState = [s \in DOMAIN session |-> Missing]
  /\ pc = [p \in Procs |-> "idle"]
  /\ loc = [p \in Procs |-> NoLocals]
  /\ resetCount = [t \in 1..MaxTokens |-> 0]
  /\ issuedLog = {}


\* ------------------------------------------------------------ store access
\* select().from(users).where(eq(users.email, e))
UserByEmail(e) == {u \in users : u.email = e}

\* select().from(users).where(eq(users.id, id))
UserById(id) == {u \in users : u.id = id}

\* update(users).set({column: value}).where(eq(users.id, id))
\* fault: the update without its where clause
UpdateUser_AllRows(us, id, column, value) ==
  {[u EXCEPT ![column] = value] : u \in us}

UpdateUser(us, id, column, value) ==
  {IF u.id = id THEN [u EXCEPT ![column] = value] ELSE u : u \in us}

\* fault: the foreign key without its cascade
CascadeVerificationTokens_None(vt, id) == vt

\* verification_tokens.user_id ... ON DELETE cascade
CascadeVerificationTokens(vt, id) == {t \in vt : t.userId # id}

\* password_reset_tokens.user_id: cascade-deleted with the user
CascadeResetTokens(rt, id) == {t \in rt : t.userId # id}

\* delete(users).where(eq(users.id, id)) with the cascades it sets off
DeleteUserRow(us, vt, rt, id) ==
  [users   |-> {u \in us : u.id # id},
   vtokens |-> CascadeVerificationTokens(vt, id),
   rtokens |-> CascadeResetTokens(rt, id)]

\* the public identity that loginUser returns
Snapshot(u) ==
  [id |-> u.id, email |-> u.email, displayName |-> u.displayName,
   firstName |-> u.firstName, lastName |-> u.lastName, role |-> u.role,
   emailVerified |-> u.emailVerified]

\* a row of verification_tokens as createVerificationToken inserts it
VerificationTokenRow(userId) ==
  [id |-> nextToken, userId |-> userId, token |-> nextToken,
   expiresAt |-> now + VerifyTTL, createdAt |-> now]

\* a row of password_reset_tokens as createPasswordResetToken inserts it
ResetTokenRow(userId) ==
  [id |-> nextToken, userId |-> userId, token |-> nextToken,
   expiresAt |-> now + ResetTTL, createdAt |-> now]

\* fault: gte in place of gt
LiveToken_Inclusive(t, token) == t.token = token /\ t.expiresAt >= now

\* and(eq(t.token, token), gt(t.expiresAt, new Date()))
LiveToken(t, token) == t.token = token /\ t.expiresAt > now

\* select().from(verificationTokens).where(and(eq(token), gt(expiresAt, now)))
LiveVerificationTokens(token) == {t \in vtokens : LiveToken(t, token)}

\* select().from(passwordResetTokens).where(and(eq(token), gt(expiresAt, now)))
LiveResetTokens(token) == {t \in rtokens : LiveToken(t, token)}

\* fault: the earlier tokens of the user are kept
DeleteResetTokensOf_None(rt, userId) == rt

\* delete(passwordResetTokens).where(eq(passwordResetTokens.userId, userId))
DeleteResetTokensOf(rt, userId) == {t \in rt : t.userId # userId}

\* fault: the consumed token is kept
DeleteTokenById_Keep(tt, id) == tt

\* delete(table).where(eq(table.id, id)) on a token table
DeleteTokenById(tt, id) == {t \in tt : t.id # id}

\* ----------------------------------------------------------------- service
\* the result of a service call: err is the message of the Error thrown ("" when
\* none), the tables and serials as the call leaves them
Result(err, us, vt, rt, uid, tok) ==
  [err |-> err, users |-> us, vtokens |-> vt, rtokens |-> rt,
   nextUserId |-> uid, nextToken |-> tok]

Failed(err) == Result(err, users, vtokens, rtokens, nextUserId, nextToken)

\* fault: the inserted row is never marked verified
NewUserRow_NeverVerified(email, password, firstName, lastName) ==
  [id |-> nextUserId, email |-> email, passwordHash |-> hashPassword(password),
   firstName |-> firstName, lastName |-> lastName,
   displayName |-> JoinName(firstName, lastName),
   role |-> "user", emailVerified |-> FALSE, lastLoginAt |-> NoTime]

\* the row registerUser inserts
NewUserRow(email, password, firstName, lastName) ==
  [id |-> nextUserId, email |-> email, passwordHash |-> hashPassword(password),
   firstName |-> firstName, lastName |-> lastName,
   displayName |-> JoinName(firstName, lastName),
   role |-> "user", emailVerified |-> ~smtpConfigured, lastLoginAt |-> NoTime]

\* registerUser(email, password, firstName, lastName); sendOk: whether
\* sendVerificationEmail returns (TRUE) or throws (FALSE)
registerUser(email, password, firstName, lastName, sendOk) ==
  LET normalizedEmail == toLowerCase(email)
      trimmedFirstName == Trim(firstName)
      trimmedLastName == Trim(lastName)
      newUser == NewUserRow(normalizedEmail, password, trimmedFirstName, trimmedLastName)
      token == VerificationTokenRow(newUser.id)
  IN  IF UserByEmail(normalizedEmail) # {}
        THEN Failed("User with this email already exists")
      ELSE IF Len(password) < MinPasswordLength
        THEN Failed("Password must be at least 8 characters long")
      ELSE IF Len(trimmedFirstName) = 0 \/ Len(trimmedLastName) = 0
        THEN Failed("First name and last name cannot be empty")
      ELSE IF ~smtpConfigured
        THEN Result("", users \cup {newUser}, vtokens, rtokens,
                    nextUserId + 1, nextToken)
      ELSE IF sendOk
        THEN Result("", users \cup {newUser}, vtokens \cup {token}, rtokens,
                    nextUserId + 1, nextToken + 1)
      ELSE LET d == DeleteUserRow(users \cup {newUser}, vtokens \cup {token},
                                  rtokens, newUser.id)
           IN  Result("Failed to send verification email. Please check your email configuration.",
                      d.users, d.vtokens, d.rtokens, nextUserId + 1, nextToken + 1)

\* verifyEmailToken(token)
verifyEmailToken(token) ==
  LET verificationToken == LiveVerificationTokens(token)
  IN  IF verificationToken = {}
        THEN Failed("Invalid or expired verification token")
      ELSE LET t == CHOOSE t \in verificationToken : TRUE
           IN  Result("", UpdateUser(users, t.userId, "emailVerified", TRUE),
                      DeleteTokenById(vtokens, t.id), rtokens,
                      nextUserId, nextToken)

\* fault: loginUser without the check of emailVerified
loginUser_NoVerifiedCheck(email, password) ==
  LET normalizedEmail == toLowerCase(email)
      user == UserByEmail(normalizedEmail)
  IN  IF user = {}
        THEN [err |-> "Invalid email or password", users |-> users, user |-> NoUser]
      ELSE LET u == CHOOSE u \in user : TRUE
           IN  IF ~verifyPassword(password, u.passwordHash)
                 THEN [err |-> "Invalid email or password", users |-> users, user |-> NoUser]
               ELSE [err |-> "", users |-> UpdateUser(users, u.id, "lastLoginAt", now),
                     user |-> Snapshot(u)]

\* fault: loginUser with a message of its own for a wrong password
loginUser_TellsWrongPassword(email, password) ==
  LET normalizedEmail == toLowerCase(email)
      user == UserByEmail(normalizedEmail)
  IN  IF user = {}
        THEN [err |-> "Invalid email or password", users |-> users, user |-> NoUser]
      ELSE LET u == CHOOSE u \in user : TRUE
           IN  IF ~verifyPassword(password, u.passwordHash)
                 THEN [err |-> "Invalid password", users |-> users, user |-> NoUser]
               ELSE IF ~u.emailVerified
                 THEN [err |-> "Please verify your email before logging in",
                       users |-> users, user |-> NoUser]
               ELSE [err |-> "", users |-> UpdateUser(users, u.id, "lastLoginAt", now),
                     user |-> Snapshot(u)]

\* loginUser(email, password): the Error thrown, or the identity returned and
\* the users table with lastLoginAt set
loginUser(email, password) ==
  LET normalizedEmail == toLowerCase(email)
      user == UserByEmail(normalizedEmail)
  IN  IF user = {}
        THEN [err |-> "Invalid email or password", users |-> users, user |-> NoUser]
      ELSE LET u == CHOOSE u \in user : TRUE
           IN  IF ~verifyPassword(password, u.passwordHash)
                 THEN [err |-> "Invalid email or password", users |-> users, user |-> NoUser]
               ELSE IF ~u.emailVerified
                 THEN [err |-> "Please verify your email before logging in",
                       users |-> users, user |-> NoUser]
               ELSE [err |-> "", users |-> UpdateUser(users, u.id, "lastLoginAt", now),
                     user |-> Snapshot(u)]


\* createPasswordResetToken(email): token is the value returned (0 for null)
createPasswordResetToken(email) ==
  LET normalizedEmail == toLowerCase(email)
      user == UserByEmail(normalizedEmail)
  IN  IF user = {}
        THEN [token |-> 0, rtokens |-> rtokens, nextToken |-> nextToken]
      ELSE LET u == CHOOSE u \in user : TRUE
               kept == DeleteResetTokensOf(rtokens, u.id)
           IN  [token |-> nextToken, rtokens |-> kept \cup {ResetTokenRow(u.id)},
                nextToken |-> nextToken + 1]

\* verifyPasswordResetToken(token): the email returned (empty for null)
verifyPasswordResetToken(token) ==
  LET resetToken == LiveResetTokens(token)
  IN  IF resetToken = {} THEN << >>
      ELSE LET t == CHOOSE t \in resetToken : TRUE
               user == UserById(t.userId)
           IN  IF user # {} THEN (CHOOSE u \in user : TRUE).email ELSE << >>

\* resetPasswordWithToken(token, newPassword)
resetPasswordWithToken(token, newPassword) ==
  LET resetToken == LiveResetTokens(token)
  IN  IF resetToken = {}
        THEN Failed("Invalid or expired reset token")
      ELSE IF Len(newPassword) < MinPasswordLength
        THEN Failed("Password must be at least 8 characters long")
      ELSE LET t == CHOOSE t \in resetToken : TRUE
               passwordHash == hashPassword(newPassword)
           IN  Result("", UpdateUser(users, t.userId, "passwordHash", passwordHash), vtokens,
                      DeleteTokenById(rtokens, t.id), nextUserId, nextToken)

\* ------------------------------------------------------------------ routes
\* the tokens a client may present: every value generateToken may have
\* returned, and 0 for a request without one
TokenInputs == 0..MaxTokens

StoreUnchanged == UNCHANGED <<users, vtokens, rtokens, nextUserId, nextToken>>
ConfigUnchanged == UNCHANGED <<now, ticks, smtpConfigured, settings, sideVars>>

\* the tables and serials become those of a service result
Commit(r) ==
  /\ users' = r.users
  /\ vtokens' = r.vtokens
  /\ rtokens' = r.rtokens
  /\ nextUserId' = r.nextUserId
  /\ nextToken' = r.nextToken

\* POST /register
PostRegister(email, password, firstName, lastName, sendOk) ==
  /\ ConfigUnchanged /\ UNCHANGED <<session, usedTokens>>
  /\ IF ~Truthy(email) \/ ~Truthy(password) \/ ~Truthy(firstName) \/ ~Truthy(lastName)
       THEN /\ resp' = Response("register", 400,
                         "Email, password, first name, and last name are required")
            /\ StoreUnchanged /\ UNCHANGED registered
     ELSE IF ~EmailRegexTest(email)
       THEN /\ resp' = Response("register", 400, "Invalid email format")
            /\ StoreUnchanged /\ UNCHANGED registered
     ELSE LET r == registerUser(email, password, firstName, lastName, sendOk)
          IN  /\ Cardinality(RegisteredRows(r.users)) <= MaxUsers
              /\ r.nextToken <= MaxTokens + 1
              /\ Commit(r)
              /\ IF r.err = ""
                   THEN /\ resp' = Response("register", 200,
                               IF smtpConfigured
                                 THEN "Registration successful! Please check your email to verify your account."
                                 ELSE "Registration successful! You can now log in.")
                        /\ registered' = registered \cup
                             {[id |-> nextUserId, email |-> email, password |-> password,
                               token |-> IF smtpConfigured THEN nextToken ELSE 0]}
                   ELSE /\ resp' = Response("register", 400, r.err)
                        /\ UNCHANGED registered

\* GET /verify-email?token=
GetVerifyEmail(token) ==
  /\ ConfigUnchanged /\ UNCHANGED <<session, registered>>
  /\ IF token = 0
       THEN /\ resp' = TokenResponse("verify-email", 400, "Invalid verification token", token)
            /\ StoreUnchanged /\ UNCHANGED usedTokens
     ELSE LET r == verifyEmailToken(token)
          IN  /\ Commit(r)
              /\ IF r.err = ""
                   THEN /\ resp' = TokenResponse("verify-email", 302, "verified=true", token)
                        /\ usedTokens' = usedTokens \cup {token}
                   ELSE /\ resp' = TokenResponse("verify-email", 302, r.err, token)
                        /\ UNCHANGED usedTokens

\* the response of POST /login
LoginResponse(email, password) ==
  IF ~Truthy(email) \/ ~Truthy(password)
    THEN Response("login", 400, "Email and password are required")
  ELSE LET r == loginUser(email, password)
       IN  IF r.err = ""
             THEN [Response("login", 200, "success") EXCEPT !.user = r.user]
             ELSE Response("login", 401, r.err)

\* POST /login on session s
PostLogin(s, email, password) ==
  /\ ConfigUnchanged /\ UNCHANGED <<registered, usedTokens>>
  /\ UNCHANGED <<vtokens, rtokens, nextUserId, nextToken>>
  /\ resp' = LoginResponse(email, password)
  /\ IF ~Truthy(email) \/ ~Truthy(password)
       THEN UNCHANGED <<users, session>>
     ELSE LET r == loginUser(email, password)
          IN  /\ users' = r.users
              /\ IF r.err = ""
                   THEN session' = [session EXCEPT ![s] = r.user]
                   ELSE UNCHANGED session

\* the response of POST /forgot-password; sendOk: whether
\* sendPasswordResetEmail returns
ForgotPasswordResponse(email, sendOk) ==
  IF ~Truthy(email)
    THEN Response("forgot-password", 400, "Email is required")
  ELSE IF ~EmailRegexTest(email)
    THEN Response("forgot-password", 400, "Invalid email format")
  ELSE LET r == createPasswordResetToken(email)
       IN  IF r.token # 0 /\ smtpConfigured /\ ~sendOk
             THEN Response("forgot-password", 500,
                           "Failed to send password reset email")
             ELSE Response("forgot-password", 200,
                    IF smtpConfigured
                      THEN "If an account exists with that email, a password reset link has been sent."
                      ELSE "Password reset email service is not configured. Please contact an administrator.")

\* POST /forgot-password; sendOk: whether sendPasswordResetEmail returns
PostForgotPassword(email, sendOk) ==
  /\ ConfigUnchanged /\ UNCHANGED <<registered, usedTokens>>
  /\ UNCHANGED <<users, vtokens, nextUserId, session>>
  /\ resp' = ForgotPasswordResponse(email, sendOk)
  /\ IF ~Truthy(email)
       THEN UNCHANGED <<rtokens, nextToken>>
     ELSE IF ~EmailRegexTest(email)
       THEN UNCHANGED <<rtokens, nextToken>>
     ELSE LET r == createPasswordResetToken(email)
          IN  /\ r.nextToken <= MaxTokens + 1
              /\ rtokens' = r.rtokens
              /\ nextToken' = r.nextToken

\* GET /reset-password/verify?token=
GetResetPasswordVerify(token) ==
  /\ ConfigUnchanged /\ StoreUnchanged
  /\ UNCHANGED <<session, registered, usedTokens>>
  /\ IF token = 0
       THEN resp' = TokenResponse("reset-password/verify", 400, "Invalid reset token", token)
     ELSE LET email == verifyPasswordResetToken(token)
          IN  IF ~Truthy(email)
                THEN resp' = TokenResponse("reset-password/verify", 400,
                                           "Invalid or expired reset token", token)
                ELSE resp' = [TokenResponse("reset-password/verify", 200, "success", token)
                                EXCEPT !.email = email]

\* POST /reset-password
PostResetPassword(token, newPassword) ==
  /\ ConfigUnchanged /\ UNCHANGED <<session, usedTokens>>
  /\ IF token = 0 \/ ~Truthy(newPassword)
       THEN /\ resp' = TokenResponse("reset-password", 400,
                                     "Token and new password are required", token)
            /\ StoreUnchanged /\ UNCHANGED registered
     ELSE IF Len(newPassword) < MinPasswordLength
       THEN /\ resp' = TokenResponse("reset-password", 400,
                                     "Password must be at least 8 characters long", token)
            /\ StoreUnchanged /\ UNCHANGED registered
     ELSE LET r == resetPasswordWithToken(token, newPassword)
          IN  /\ Commit(r)
              /\ IF r.err = ""
                   THEN /\ resp' = TokenResponse("reset-password", 200,
                               "Password has been reset successfully. You can now log in with your new password.",
                               token)
                        /\ registered' =
                             {c \in registered :
                                \A t \in LiveResetTokens(token) : c.id # t.userId}
                   ELSE /\ resp' = TokenResponse("reset-password", 400, r.err, token)
                        /\ UNCHANGED registered

\* time passes
Tick(d) ==
  /\ ticks < MaxTicks
  /\ now' = now + d
  /\ ticks' = ticks + 1
  /\ UNCHANGED <<users, vtokens, rtokens, nextUserId, nextToken,
                 smtpConfigured, session, resp, registered, usedTokens, settings,
                 sideVars>>

\* the outcomes of a send: it can throw only where mail is configured
SendOutcomes == IF smtpConfigured THEN BOOLEAN ELSE {TRUE}

Register ==
  /\ \E body \in RegisterInputs, sendOk \in SendOutcomes :
       PostRegister(body[1], body[2], body[3], body[4], sendOk)
  /\ UNCHANGED raceVars

VerifyEmail ==
  /\ \E token \in TokenInputs : GetVerifyEmail(token)
  /\ UNCHANGED raceVars

Login ==
  /\ \E s \in Sessions, body \in LoginInputs : PostLogin(s, body[1], body[2])
  /\ UNCHANGED raceVars

ForgotPassword ==
  /\ \E email \in ForgotInputs, sendOk \in SendOutcomes : PostForgotPassword(email, sendOk)
  /\ UNCHANGED raceVars

ResetPasswordVerify ==
  /\ \E token \in TokenInputs : GetResetPasswordVerify(token)
  /\ UNCHANGED raceVars

ResetPassword ==
  /\ \E token \in TokenInputs, newPassword \in NewPasswordInputs :
       PostResetPassword(token, newPassword)
  /\ UNCHANGED raceVars

Advance ==
  /\ \E d \in TickSteps : Tick(d)
  /\ UNCHANGED raceVars

\* requests handled one at a time
Next ==
  \/ Register
  \/ VerifyEmail
  \/ Login
  \/ ForgotPassword
  \/ ResetPasswordVerify
  \/ ResetPassword
  \/ Advance

Spec == Init /\ [][Next]_vars


\* ------------------------------------------------- requests that interleave
\* Each service function awaits the database once per statement and opens no
\* transaction, so between two statements of one request the statements of
\* another may run.  A request in flight is at pc[p] with its locals in loc[p].

\* the bodies sent to POST /register by the requests that interleave
RaceRegisterInputs ==
  {<<EmailAlice,   PwGood, NameAl, NameBoPad>>,
   <<EmailAliceUp, PwGood, NameAl, NameBoPad>>}

\* the emails sent to POST /forgot-password by the requests that interleave
RaceForgotInputs == {EmailAlice, EmailAliceUp, EmailBob}

\* the new passwords sent to POST /reset-password by the requests that interleave
RaceNewPasswordInputs == {PwGood, PwOther}

Locals(op, email, password, firstName, lastName, userId, token, prior) ==
  [op |-> op, email |-> email, password |-> password, firstName |-> firstName,
   lastName |-> lastName, userId |-> userId, token |-> token, prior |-> prior]

RaceUnchanged == UNCHANGED <<seqVars, smtpConfigured>>

\* the request of p goes on to statement at with locals l
Goto(p, at, l) ==
  /\ pc' = [pc EXCEPT ![p] = at]
  /\ loc' = [loc EXCEPT ![p] = l]

\* the request of p ends
Return(p) == Goto(p, "idle", NoLocals)

\* POST /register up to the select of registerUser: a request that passes the
\* checks of the route and of registerUser goes on to the insert
RaceRegisterSelect(p, body) ==
  /\ pc[p] = "idle"
  /\ Truthy(body[1]) /\ Truthy(body[2]) /\ Truthy(body[3]) /\ Truthy(body[4])
  /\ EmailRegexTest(body[1])
  /\ UserByEmail(toLowerCase(body[1])) = {}
  /\ Len(body[2]) >= MinPasswordLength
  /\ Len(Trim(body[3])) # 0 /\ Len(Trim(body[4])) # 0
  /\ Goto(p, "register_insert",
          Locals("register", toLowerCase(body[1]), body[2], Trim(body[3]),
                 Trim(body[4]), 0, 0, {}))
  /\ UNCHANGED <<users, vtokens, rtokens, nextUserId, nextToken, resetCount, issuedLog>>
  /\ RaceUnchanged

\* a table users without the unique constraint on email
EmailTaken_Never(email) == FALSE

\* the unique constraint on users.email: whether it refuses a row with email
EmailTaken(email) == \E u \in users : u.email = email

\* the insert of registerUser: the unique constraint on users.email refuses a
\* second row with the email (the serial is consumed all the same); an insert
\* that adds a row needs room in the table
RaceRegisterInsert(p) ==
  /\ pc[p] = "register_insert"
  /\ \/ UserByEmail(loc[p].email) # {}
     \/ Cardinality(RegisteredRows(users)) < MaxUsers
  /\ nextUserId' = nextUserId + 1
  /\ LET l == loc[p]
         newUser == NewUserRow(l.email, l.password, l.firstName, l.lastName)
     IN  IF EmailTaken(l.email)
           THEN /\ UNCHANGED users
                /\ Return(p)
           ELSE /\ users' = users \cup {newUser}
                /\ IF smtpConfigured
                     THEN Goto(p, "register_token", [l EXCEPT !.userId = newUser.id])
                     ELSE Return(p)
  /\ UNCHANGED <<vtokens, rtokens, nextToken, resetCount, issuedLog>>
  /\ RaceUnchanged

\* createVerificationToken(newUser[0].id); the foreign key refuses a row
\* whose user is gone, and the call throws
RaceRegisterToken(p) ==
  /\ pc[p] = "register_token"
  /\ nextToken <= MaxTokens
  /\ nextToken' = nextToken + 1
  /\ IF UserById(loc[p].userId) = {}
       THEN /\ UNCHANGED vtokens
            /\ Return(p)
       ELSE /\ vtokens' = vtokens \cup {VerificationTokenRow(loc[p].userId)}
            /\ Goto(p, "register_send", [loc[p] EXCEPT !.token = nextToken])
  /\ UNCHANGED <<users, rtokens, nextUserId, resetCount, issuedLog>>
  /\ RaceUnchanged

\* sendVerificationEmail(email, token) returns (sendOk) or throws
RaceRegisterSend(p, sendOk) ==
  /\ pc[p] = "register_send"
  /\ IF sendOk THEN Return(p) ELSE Goto(p, "register_rollback", loc[p])
  /\ UNCHANGED <<users, vtokens, rtokens, nextUserId, nextToken, resetCount, issuedLog>>
  /\ RaceUnchanged

\* db.delete(users).where(eq(users.id, newUser[0].id)) in the catch
RaceRegisterRollback(p) ==
  /\ pc[p] = "register_rollback"
  /\ LET d == DeleteUserRow(users, vtokens, rtokens, loc[p].userId)
     IN  /\ users' = d.users
         /\ vtokens' = d.vtokens
         /\ rtokens' = d.rtokens
  /\ Return(p)
  /\ UNCHANGED <<nextUserId, nextToken, resetCount, issuedLog>>
  /\ RaceUnchanged

\* the reset tokens createPasswordResetToken has returned for user id so far
IssuedFor(id) == {e.token : e \in {x \in issuedLog : x.userId = id}}

\* POST /forgot-password up to the select of createPasswordResetToken: a
\* request whose email finds a user goes on to the delete
RaceForgotSelect(p, email) ==
  /\ pc[p] = "idle"
  /\ Truthy(email) /\ EmailRegexTest(email)
  /\ UserByEmail(toLowerCase(email)) # {}
  /\ LET u == CHOOSE u \in UserByEmail(toLowerCase(email)) : TRUE
     IN  Goto(p, "forgot_delete",
              Locals("forgot-password", toLowerCase(email), << >>, << >>, << >>,
                     u.id, 0, IssuedFor(u.id)))
  /\ UNCHANGED <<users, vtokens, rtokens, nextUserId, nextToken, resetCount, issuedLog>>
  /\ RaceUnchanged

\* the delete of createPasswordResetToken
RaceForgotDelete(p) ==
  /\ pc[p] = "forgot_delete"
  /\ rtokens' = DeleteResetTokensOf(rtokens, loc[p].userId)
  /\ Goto(p, "forgot_insert", loc[p])
  /\ UNCHANGED <<users, vtokens, nextUserId, nextToken, resetCount, issuedLog>>
  /\ RaceUnchanged

\* the insert of createPasswordResetToken and its return; the foreign key
\* refuses a row whose user is gone
RaceForgotInsert(p) ==
  /\ pc[p] = "forgot_insert"
  /\ nextToken <= MaxTokens
  /\ nextToken' = nextToken + 1
  /\ IF UserById(loc[p].userId) = {}
       THEN UNCHANGED <<rtokens, issuedLog>>
       ELSE /\ rtokens' = rtokens \cup {ResetTokenRow(loc[p].userId)}
            /\ issuedLog' = issuedLog \cup
                 {[token |-> nextToken, userId |-> loc[p].userId,
                   prior |-> loc[p].prior, earlier |-> IssuedFor(loc[p].userId)]}
  /\ Return(p)
  /\ UNCHANGED <<users, vtokens, nextUserId, resetCount>>
  /\ RaceUnchanged

\* POST /reset-password up to the select of resetPasswordWithToken: a request
\* that passes the checks of the route and finds the token live goes on to the
\* update
RaceResetSelect(p, token, newPassword) ==
  /\ pc[p] = "idle"
  /\ token # 0 /\ Truthy(newPassword)
  /\ Len(newPassword) >= MinPasswordLength
  /\ LiveResetTokens(token) # {}
  /\ LET t == CHOOSE t \in LiveResetTokens(token) : TRUE
     IN  Goto(p, "reset_update",
              Locals("reset-password", << >>, newPassword, << >>, << >>,
                     t.userId, t.id, {}))
  /\ UNCHANGED <<users, vtokens, rtokens, nextUserId, nextToken, resetCount, issuedLog>>
  /\ RaceUnchanged

\* the update of resetPasswordWithToken
RaceResetUpdate(p) ==
  /\ pc[p] = "reset_update"
  /\ LET passwordHash == hashPassword(loc[p].password)
     IN  users' = UpdateUser(users, loc[p].userId, "passwordHash", passwordHash)
  /\ Goto(p, "reset_delete", loc[p])
  /\ UNCHANGED <<vtokens, rtokens, nextUserId, nextToken, resetCount, issuedLog>>
  /\ RaceUnchanged

\* the delete of resetPasswordWithToken and its return: the request has
\* succeeded
RaceResetDelete(p) ==
  /\ pc[p] = "reset_delete"
  /\ rtokens' = DeleteTokenById(rtokens, loc[p].token)
  /\ resetCount' = [resetCount EXCEPT ![loc[p].token] = @ + 1]
  /\ Return(p)
  /\ UNCHANGED <<users, vtokens, nextUserId, nextToken, issuedLog>>
  /\ RaceUnchanged

RaceRegister ==
  \E p \in Procs :
    \/ \E body \in RaceRegisterInputs : RaceRegisterSelect(p, body)
    \/ RaceRegisterInsert(p)
    \/ RaceRegisterToken(p)
    \/ \E sendOk \in BOOLEAN : RaceRegisterSend(p, sendOk)
    \/ RaceRegisterRollback(p)

RaceForgotPassword ==
  \E p \in Procs :
    \/ \E email \in RaceForgotInputs : RaceForgotSelect(p, email)
    \/ RaceForgotDelete(p)
    \/ RaceForgotInsert(p)

RaceResetPassword ==
  \E p \in Procs :
    \/ \E token \in TokenInputs, newPassword \in RaceNewPasswordInputs :
         RaceResetSelect(p, token, newPassword)
    \/ RaceResetUpdate(p)
    \/ RaceResetDelete(p)

\* requests whose statements interleave
NextRace ==
  \/ RaceRegister
  \/ RaceForgotPassword
  \/ RaceResetPassword

SpecRace == Init /\ [][NextRace]_vars

\* ------------------------------------------- sessions and administration
\* the browser sessions of the administration runs
AdminSessions == {"s1", "s2"}

\* the row scripts/create-test-admin.ts inserts
TestAdminRow ==
  [id |-> 2, email |-> toLowerCase(TestAdminEmail),
   passwordHash |-> hashPassword(PwAdmin),
   firstName |-> <<"T">>, lastName |-> <<"A">>,
   displayName |-> <<"T", " ", "A">>,
   role |-> "admin", emailVerified |-> TRUE, lastLoginAt |-> NoTime]

\* the database after the migration and scripts/create-test-admin.ts
InitAdmin ==
  /\ users = {SeedAdminRow, TestAdminRow}
  /\ vtokens = {}
  /\ rtokens = {}
  /\ nextUserId = 3
  /\ nextToken = 1
  /\ now = 0
  /\ ticks = 0
  /\ smtpConfigured \in BOOLEAN
  /\ session = [s \in AdminSessions |-> NoUser]
  /\ resp = Response("none", 0, "")
  /\ registered = {}
  /\ usedTokens = {}
  /\ settings = {}
  /\ topics = {}
  /\ nextTopicId = 1
  /\ allowedDomains = {}
  /\ nextDomainId = 1
  /\ authState = [s \in DOMAIN session |-> Missing]
  /\ pc = [p \in Procs |-> "idle"]
  /\ loc = [p \in Procs |-> NoLocals]
  /\ resetCount = [t \in 1..MaxTokens |-> 0]
  /\ issuedLog = {}

\* requireAuth that lets every request pass
requireAuth_Always(s) == TRUE

\* requireAuth: whether the request on session s passes
requireAuth(s) == session[s] # NoUser

\* requireAdmin without the test of the role
requireAdmin_AnyUser(s) == session[s] # NoUser

\* requireAdmin: whether the request on session s passes
requireAdmin(s) == session[s] # NoUser /\ session[s].role = "admin"

UnauthorizedText == "Unauthorized"
ForbiddenText == "Forbidden: Admin access required"

\* the columns GET /users selects
UserListing(u) ==
  [id |-> u.id, email |-> u.email, displayName |-> u.displayName,
   firstName |-> u.firstName, lastName |-> u.lastName, role |-> u.role,
   emailVerified |-> u.emailVerified, lastLoginAt |-> u.lastLoginAt]

\* the rows of table settings after the upsert of PUT /:key
UpsertSetting(rows, key, value) ==
  {r \in rows : r.key # key} \cup {[key |-> key, value |-> value]}

\* fault: a logout that leaves the session as it was
PostLogout_KeepsSession(s) ==
  /\ ConfigUnchanged /\ StoreUnchanged /\ UNCHANGED <<registered, usedTokens>>
  /\ UNCHANGED session
  /\ resp' = Response("logout", 200, "success")

\* POST /logout on session s
PostLogout(s) ==
  /\ ConfigUnchanged /\ StoreUnchanged /\ UNCHANGED <<registered, usedTokens>>
  /\ session' = [session EXCEPT ![s] = NoUser]
  /\ resp' = Response("logout", 200, "success")

\* GET /me on session s
GetMe(s) ==
  /\ ConfigUnchanged /\ StoreUnchanged
  /\ UNCHANGED <<session, registered, usedTokens>>
  /\ IF requireAuth(s)
       THEN resp' = [Response("me", 200, "success") EXCEPT !.user = session[s]]
       ELSE resp' = Response("me", 401, UnauthorizedText)

\* GET /users on session s
GetUsers(s) ==
  /\ ConfigUnchanged /\ StoreUnchanged
  /\ UNCHANGED <<session, registered, usedTokens>>
  /\ IF requireAdmin(s)
       THEN resp' = [Response("users", 200, "success")
                       EXCEPT !.list = {UserListing(u) : u \in users}]
       ELSE resp' = Response("users", 403, ForbiddenText)

\* PATCH /users/:id/role that also rewrites the snapshots of the user's sessions
PatchUserRole_RefreshesSessions(s, id, role) ==
  /\ ConfigUnchanged /\ UNCHANGED <<registered, usedTokens>>
  /\ UNCHANGED <<vtokens, rtokens, nextUserId, nextToken>>
  /\ IF ~requireAdmin(s)
       THEN /\ resp' = Response("users/role", 403, ForbiddenText)
            /\ UNCHANGED <<users, session>>
     ELSE IF role \notin {"user", "admin"}
       THEN /\ resp' = Response("users/role", 400, "Invalid role")
            /\ UNCHANGED <<users, session>>
     ELSE /\ users' = UpdateUser(users, id, "role", role)
          /\ session' = [x \in DOMAIN session |->
                           IF session[x].id = id /\ id # 0
                             THEN [session[x] EXCEPT !.role = role]
                             ELSE session[x]]
          /\ resp' = Response("users/role", 200, "success")

\* PATCH /users/:id/role on session s
PatchUserRole(s, id, role) ==
  /\ ConfigUnchanged /\ UNCHANGED <<session, registered, usedTokens>>
  /\ UNCHANGED <<vtokens, rtokens, nextUserId, nextToken>>
  /\ IF ~requireAdmin(s)
       THEN /\ resp' = Response("users/role", 403, ForbiddenText)
            /\ UNCHANGED users
     ELSE IF role \notin {"user", "admin"}
       THEN /\ resp' = Response("users/role", 400, "Invalid role")
            /\ UNCHANGED users
     ELSE /\ users' = UpdateUser(users, id, "role", role)
          /\ resp' = Response("users/role", 200, "success")

\* the topics that refer to user id: topics.user_id ... ON DELETE no action
\* refuses the delete of a user who has any
TopicsOf(id) == {t \in topics : t.userId = id}

\* DELETE /users/:id that requireAdmin does not gate
DeleteUser_NoAdminGate(s, id) ==
  /\ ConfigUnchanged /\ UNCHANGED <<session, usedTokens>>
  /\ UNCHANGED <<nextUserId, nextToken>>
  /\ IF session[s].id = id
       THEN /\ resp' = Response("users/delete", 400, "Cannot delete your own account")
            /\ UNCHANGED <<users, vtokens, rtokens, registered>>
     ELSE IF TopicsOf(id) # {}
       THEN /\ resp' = Response("users/delete", 500, "Failed to delete user")
            /\ UNCHANGED <<users, vtokens, rtokens, registered>>
     ELSE LET d == DeleteUserRow(users, vtokens, rtokens, id)
          IN  /\ users' = d.users
              /\ vtokens' = d.vtokens
              /\ rtokens' = d.rtokens
              /\ registered' = {c \in registered : c.id # id}
              /\ resp' = Response("users/delete", 200, "success")

\* DELETE /users/:id without the test for the own account
DeleteUser_NoSelfGuard(s, id) ==
  /\ ConfigUnchanged /\ UNCHANGED <<session, usedTokens>>
  /\ UNCHANGED <<nextUserId, nextToken>>
  /\ IF ~requireAdmin(s)
       THEN /\ resp' = Response("users/delete", 403, ForbiddenText)
            /\ UNCHANGED <<users, vtokens, rtokens, registered>>
     ELSE IF TopicsOf(id) # {}
       THEN /\ resp' = Response("users/delete", 500, "Failed to delete user")
            /\ UNCHANGED <<users, vtokens, rtokens, registered>>
     ELSE LET d == DeleteUserRow(users, vtokens, rtokens, id)
          IN  /\ users' = d.users
              /\ vtokens' = d.vtokens
              /\ rtokens' = d.rtokens
              /\ registered' = {c \in registered : c.id # id}
              /\ resp' = Response("users/delete", 200, "success")

\* DELETE /users/:id on session s
DeleteUser(s, id) ==
  /\ ConfigUnchanged /\ UNCHANGED <<session, usedTokens>>
  /\ UNCHANGED <<nextUserId, nextToken>>
  /\ IF ~requireAdmin(s)
       THEN /\ resp' = Response("users/delete", 403, ForbiddenText)
            /\ UNCHANGED <<users, vtokens, rtokens, registered>>
     ELSE IF session[s].id = id
       THEN /\ resp' = Response("users/delete", 400, "Cannot delete your own account")
            /\ UNCHANGED <<users, vtokens, rtokens, registered>>
     ELSE IF TopicsOf(id) # {}
       THEN /\ resp' = Response("users/delete", 500, "Failed to delete user")
            /\ UNCHANGED <<users, vtokens, rtokens, registered>>
     ELSE LET d == DeleteUserRow(users, vtokens, rtokens, id)
          IN  /\ users' = d.users
              /\ vtokens' = d.vtokens
              /\ rtokens' = d.rtokens
              /\ registered' = {c \in registered : c.id # id}
              /\ resp' = Response("users/delete", 200, "success")

\* PUT /api/settings/:key on session s: requireAuth, then requireAdmin
PutSetting(s, key, value) ==
  /\ UNCHANGED <<now, ticks, smtpConfigured, sideVars>> /\ StoreUnchanged
  /\ UNCHANGED <<session, registered, usedTokens>>
  /\ IF ~requireAuth(s)
       THEN /\ resp' = Response("settings", 401, UnauthorizedText)
            /\ UNCHANGED settings
     ELSE IF ~requireAdmin(s)
       THEN /\ resp' = Response("settings", 403, ForbiddenText)
            /\ UNCHANGED settings
     ELSE IF ~Truthy(value)
       THEN /\ resp' = Response("settings", 400, "Value is required")
            /\ UNCHANGED settings
     ELSE /\ settings' = UpsertSetting(settings, key, value)
          /\ resp' = Response("settings", 200, "success")

\* PATCH /profile/password with the test of the length after the update
PatchProfilePassword_LengthLast(s, currentPassword, newPassword) ==
  /\ ConfigUnchanged /\ UNCHANGED <<session, usedTokens>>
  /\ UNCHANGED <<vtokens, rtokens, nextUserId, nextToken>>
  /\ IF ~requireAuth(s)
       THEN /\ resp' = Response("profile/password", 401, UnauthorizedText)
            /\ UNCHANGED <<users, registered>>
     ELSE IF ~Truthy(currentPassword) \/ ~Truthy(newPassword)
       THEN /\ resp' = Response("profile/password", 400,
                                "Current password and new password are required")
            /\ UNCHANGED <<users, registered>>
     ELSE IF UserById(session[s].id) = {}
       THEN /\ resp' = Response("profile/password", 404, "User not found")
            /\ UNCHANGED <<users, registered>>
     ELSE LET user == CHOOSE u \in UserById(session[s].id) : TRUE
          IN  IF ~verifyPassword(currentPassword, user.passwordHash)
                THEN /\ resp' = Response("profile/password", 400,
                                         "Current password is incorrect")
                     /\ UNCHANGED <<users, registered>>
                ELSE /\ users' = UpdateUser(users, user.id, "passwordHash",
                                            hashPassword(newPassword))
                     /\ registered' = {c \in registered : c.id # user.id}
                     /\ IF Len(newPassword) < MinPasswordLength
                          THEN resp' = Response("profile/password", 400,
                                 "New password must be at least 8 characters long")
                          ELSE resp' = Response("profile/password", 200,
                                                "Password updated successfully")

\* PATCH /profile/password on session s
PatchProfilePassword(s, currentPassword, newPassword) ==
  /\ ConfigUnchanged /\ UNCHANGED <<session, usedTokens>>
  /\ UNCHANGED <<vtokens, rtokens, nextUserId, nextToken>>
  /\ IF ~requireAuth(s)
       THEN /\ resp' = Response("profile/password", 401, UnauthorizedText)
            /\ UNCHANGED <<users, registered>>
     ELSE IF ~Truthy(currentPassword) \/ ~Truthy(newPassword)
       THEN /\ resp' = Response("profile/password", 400,
                                "Current password and new password are required")
            /\ UNCHANGED <<users, registered>>
     ELSE IF Len(newPassword) < MinPasswordLength
       THEN /\ resp' = Response("profile/password", 400,
                                "New password must be at least 8 characters long")
            /\ UNCHANGED <<users, registered>>
     ELSE IF UserById(session[s].id) = {}
       THEN /\ resp' = Response("profile/password", 404, "User not found")
            /\ UNCHANGED <<users, registered>>
     ELSE LET user == CHOOSE u \in UserById(session[s].id) : TRUE
          IN  IF ~verifyPassword(currentPassword, user.passwordHash)
                THEN /\ resp' = Response("profile/password", 400,
                                         "Current password is incorrect")
                     /\ UNCHANGED <<users, registered>>
                ELSE /\ users' = UpdateUser(users, user.id, "passwordHash",
                                            hashPassword(newPassword))
                     /\ registered' = {c \in registered : c.id # user.id}
                     /\ resp' = Response("profile/password", 200,
                                         "Password updated successfully")

\* the credentials sent to POST /login in the administration runs
AdminLoginInputs == {<<TestAdminEmail, PwAdmin>>, <<EmailAlice, PwGood>>}

\* the ids sent as :id: the test admin, the first registered user
UserIdInputs == {TestAdminRow.id, TestAdminRow.id + 1}

\* the roles sent to PATCH /users/:id/role
RoleInputs == {"user", "admin", "owner"}

\* the values sent to PUT /api/settings/geminiModel
SettingInputs == {Missing, <<"g">>}

\* the passwords sent to PATCH /profile/password
CurrentPasswordInputs == {PwGood, PwAdmin}
ChangedPasswordInputs == {PwOther, PwShort}

\* POST /register statement by statement, one request at a time
RegisterStepwise ==
  LET p == "p1"
  IN  \/ \E body \in RaceRegisterInputs : RaceRegisterSelect(p, body)
      \/ RaceRegisterInsert(p)
      \/ RaceRegisterToken(p)
      \/ \E sendOk \in BOOLEAN : RaceRegisterSend(p, sendOk)
      \/ RaceRegisterRollback(p)

AdminLogin ==
  /\ \E s \in AdminSessions, body \in AdminLoginInputs : PostLogin(s, body[1], body[2])
  /\ UNCHANGED raceVars

Logout ==
  /\ \E s \in AdminSessions : PostLogout(s)
  /\ UNCHANGED raceVars

Me ==
  /\ \E s \in AdminSessions : GetMe(s)
  /\ UNCHANGED raceVars

ListUsers ==
  /\ \E s \in AdminSessions : GetUsers(s)
  /\ UNCHANGED raceVars

SetRole ==
  /\ \E s \in AdminSessions, id \in UserIdInputs, role \in RoleInputs :
       PatchUserRole(s, id, role)
  /\ UNCHANGED raceVars

RemoveUser ==
  /\ \E s \in AdminSessions, id \in UserIdInputs : DeleteUser(s, id)
  /\ UNCHANGED raceVars

UpdateSetting ==
  /\ \E s \in AdminSessions, value \in SettingInputs : PutSetting(s, "geminiModel", value)
  /\ UNCHANGED raceVars

ChangePassword ==
  /\ \E s \in AdminSessions, currentPassword \in CurrentPasswordInputs,
        newPassword \in ChangedPasswordInputs :
       PatchProfilePassword(s, currentPassword, newPassword)
  /\ UNCHANGED raceVars

\* the requests of sessions and administration, handled one at a time, beside
\* registrations whose statements interleave with them
NextAdmin ==
  \/ RegisterStepwise
  \/ AdminLogin
  \/ Logout
  \/ Me
  \/ ListUsers
  \/ SetRole
  \/ RemoveUser
  \/ UpdateSetting
  \/ ChangePassword

SpecAdmin == InitAdmin /\ [][NextAdmin]_vars

\* ------------------------------------------- resets with two token owners
\* the emails sent to POST /forgot-password where the test admin exists
OwnerForgotInputs == {TestAdminEmail, EmailAlice}

ForgotPasswordOwners ==
  /\ \E email \in OwnerForgotInputs, sendOk \in SendOutcomes :
       PostForgotPassword(email, sendOk)
  /\ UNCHANGED raceVars

\* registrations and password resets, handled one at a time, on the database
\* that holds the test admin
NextReset ==
  \/ Register
  \/ ForgotPasswordOwners
  \/ ResetPassword

SpecReset == InitAdmin /\ [][NextReset]_vars

\* ----------------------------------------------------- profile and promotion
\* PATCH /profile/name on session s
PatchProfileName(s, firstName, lastName) ==
  /\ ConfigUnchanged /\ UNCHANGED <<registered, usedTokens>>
  /\ UNCHANGED <<vtokens, rtokens, nextUserId, nextToken>>
  /\ IF ~requireAuth(s)
       THEN /\ resp' = Response("profile/name", 401, UnauthorizedText)
            /\ UNCHANGED <<users, session>>
     ELSE IF ~Truthy(firstName) \/ ~Truthy(lastName)
       THEN /\ resp' = Response("profile/name", 400,
                                "First name and last name are required")
            /\ UNCHANGED <<users, session>>
     ELSE LET trimmedFirstName == Trim(firstName)
              trimmedLastName == Trim(lastName)
              userId == session[s].id
              named == UpdateUser(UpdateUser(UpdateUser(users,
                           userId, "firstName", trimmedFirstName),
                           userId, "lastName", trimmedLastName),
                           userId, "displayName",
                           JoinName(trimmedFirstName, trimmedLastName))
          IN  IF Len(trimmedFirstName) = 0 \/ Len(trimmedLastName) = 0
                THEN /\ resp' = Response("profile/name", 400,
                                         "First name and last name cannot be empty")
                     /\ UNCHANGED <<users, session>>
              ELSE IF UserById(userId) = {}
                THEN /\ resp' = Response("profile/name", 404, "User not found")
                     /\ UNCHANGED <<users, session>>
              ELSE /\ users' = named
                   /\ session' = [session EXCEPT ![s].displayName =
                                    JoinName(trimmedFirstName, trimmedLastName)]
                   /\ resp' = [Response("profile/name", 200, "success") EXCEPT
                                 !.user = Snapshot(CHOOSE u \in named : u.id = userId)]

\* POST /verify-me
PostVerifyMe(email) ==
  /\ ConfigUnchanged /\ UNCHANGED <<session, registered, usedTokens>>
  /\ UNCHANGED <<vtokens, rtokens, nextUserId, nextToken>>
  /\ IF ~Truthy(email)
       THEN /\ resp' = Response("verify-me", 400, "Email is required")
            /\ UNCHANGED users
     ELSE IF UserByEmail(email) = {}
       THEN /\ resp' = Response("verify-me", 404, "User not found")
            /\ UNCHANGED users
     ELSE LET id == (CHOOSE u \in UserByEmail(email) : TRUE).id
              updated == UpdateUser(UpdateUser(users, id, "emailVerified", TRUE),
                                    id, "role", "admin")
          IN  /\ users' = updated
              /\ resp' = [Response("verify-me", 200,
                                   "Account verified and promoted to admin")
                            EXCEPT !.user = CHOOSE u \in updated : u.id = id]

\* the names sent to PATCH /profile/name: <<firstName, lastName>>
NameInputs == {<<NameBoPad, NameAl>>, <<NameBlank, NameAl>>, <<Missing, NameAl>>}

\* the emails sent to POST /verify-me
VerifyMeInputs == {EmailAlice, EmailAliceUp, Missing}

ChangeName ==
  /\ \E s \in AdminSessions, body \in NameInputs : PatchProfileName(s, body[1], body[2])
  /\ UNCHANGED raceVars

VerifyMe ==
  /\ \E email \in VerifyMeInputs : PostVerifyMe(email)
  /\ UNCHANGED raceVars

\* sessions, the profile name and POST /verify-me, handled one at a time, beside registrations whose statements interleave with them
NextProfile ==
  \/ RegisterStepwise
  \/ AdminLogin
  \/ Me
  \/ ChangeName
  \/ VerifyMe

SpecProfile == InitAdmin /\ [][NextProfile]_vars

\* ------------------------------------------------------------------ topics
\* DatabaseStorage.getTopics(userId)
TopicsFor(userId) == {t \in topics : t.userId = userId}

\* fault: the body's userId wins over that of the session
TopicRow_BodyOwner(body, userId) ==
  [id |-> nextTopicId, userId |-> body.userId, name |-> body.name]

\* the row createTopic inserts for {...input, userId}
TopicRow(body, userId) ==
  [id |-> nextTopicId, userId |-> userId, name |-> body.name]

\* GET /api/topics on session s
GetTopics(s) ==
  /\ UNCHANGED <<now, ticks, smtpConfigured, settings, sideVars>> /\ StoreUnchanged
  /\ UNCHANGED <<session, registered, usedTokens>>
  /\ IF ~requireAuth(s)
       THEN resp' = Response("topics", 401, UnauthorizedText)
       ELSE resp' = [Response("topics", 200, "success")
                       EXCEPT !.list = TopicsFor(session[s].id)]

\* POST /api/topics on session s; a body that insertTopicSchema refuses, or a
\* row the foreign key on user_id refuses, makes the handler throw, and the
\* request is then answered 500 (handled) or not at all
PostTopic(s, body, handled) ==
  /\ UNCHANGED <<now, ticks, smtpConfigured, settings, allowedDomains, nextDomainId, authState>>
  /\ StoreUnchanged
  /\ UNCHANGED <<session, registered, usedTokens>>
  /\ IF ~requireAuth(s)
       THEN /\ resp' = Response("topics/create", 401, UnauthorizedText)
            /\ UNCHANGED <<topics, nextTopicId>>
     ELSE IF body.userId = 0 \/ ~Truthy(body.name)
       THEN /\ resp' = Response("topics/create", IF handled THEN 500 ELSE 0, "ZodError")
            /\ UNCHANGED <<topics, nextTopicId>>
     ELSE IF UserById(session[s].id) = {}
       THEN /\ resp' = Response("topics/create", IF handled THEN 500 ELSE 0,
                                "foreign key violation")
            /\ nextTopicId <= MaxTopics
            /\ nextTopicId' = nextTopicId + 1
            /\ UNCHANGED topics
     ELSE /\ nextTopicId <= MaxTopics
          /\ topics' = topics \cup {TopicRow(body, session[s].id)}
          /\ nextTopicId' = nextTopicId + 1
          /\ resp' = [Response("topics/create", 201, "success")
                        EXCEPT !.list = {TopicRow(body, session[s].id)}]

\* the bodies sent to POST /api/topics: userId 0 stands for a body without one
TopicInputs ==
  {[userId |-> 2, name |-> <<"n">>], [userId |-> 3, name |-> <<"n">>],
   [userId |-> 0, name |-> <<"n">>]}

ListTopics ==
  /\ \E s \in AdminSessions : GetTopics(s)
  /\ UNCHANGED raceVars

CreateTopic ==
  /\ \E s \in AdminSessions, body \in TopicInputs, handled \in BOOLEAN :
       PostTopic(s, body, handled)
  /\ UNCHANGED raceVars

\* sessions, topics and the deletion of users, handled one at a time, beside
\* registrations whose statements interleave with them
NextTopics ==
  \/ RegisterStepwise
  \/ ForgotPasswordOwners
  \/ AdminLogin
  \/ ListTopics
  \/ CreateTopic
  \/ RemoveUser

SpecTopics == InitAdmin /\ [][NextTopics]_vars

\* ------------------------------------------------- the SSO revision (legacy)
\* rows ever inserted into table allowed_domains
MaxDomains == 2

\* process.env.FIRST_ADMIN_EMAIL
FirstAdminEmail == <<"f", "@", "w", ".", "i", "o">>

DomainPio     == <<"p", ".", "i", "o">>
DomainPioUp   == <<"P", ".", "i", "o">>
DomainShort   == <<"p", ".", "o">>
SsoAlice      == <<"a", "@", "p", ".", "i", "o">>
SsoNoAt       == <<"a", "p", ".", "i", "o">>
SsoBob        == <<"b", "@", "v", ".", "i", "o">>

DomainNotAllowedText == "Domain not allowed. Please contact an administrator."

\* the class [a-zA-Z]
IsLetter(c) ==
  c \in {"a", "b", "c", "d", "e", "f", "g", "h", "i", "j", "k", "l", "m",
         "n", "o", "p", "q", "r", "s", "t", "u", "v", "w", "x", "y", "z",
         "A", "B", "C", "D", "E", "F", "G", "H", "I", "J", "K", "L", "M",
         "N", "O", "P", "Q", "R", "S", "T", "U", "V", "W", "X", "Y", "Z"}

\* the class [a-zA-Z0-9]
IsAlnum(c) ==
  IsLetter(c) \/ c \in {"0", "1", "2", "3", "4", "5", "6", "7", "8", "9"}

\* /^[a-zA-Z0-9][a-zA-Z0-9-]{0,61}[a-zA-Z0-9]?\.[a-zA-Z]{2,}$/.test(d)
DomainRegexTest(d) ==
  \E j \in 2..(Len(d) - 2) :
    /\ d[j] = "."
    /\ j - 1 <= 63
    /\ IsAlnum(d[1])
    /\ \A k \in 2..(j - 1) : IsAlnum(d[k]) \/ d[k] = "-"
    /\ (j - 1 = 63 => IsAlnum(d[j - 1]))
    /\ \A k \in (j + 1)..Len(d) : IsLetter(d[k])

\* the smallest element of a non-empty set of integers
Least(S) == CHOOSE i \in S : \A k \in S : i <= k

\* email.split("@")[1]: what lies between the first "@" and the next one (or
\* the end); Missing stands for undefined (no "@") and for the empty string
SplitAt1(email) ==
  LET ats == {i \in 1..Len(email) : email[i] = "@"}
  IN IF ats = {} THEN Missing
     ELSE LET first == Least(ats)
              later == {i \in ats : i > first}
              stop  == IF later = {} THEN Len(email) + 1 ELSE Least(later)
          IN SubSeq(email, first + 1, stop - 1)

\* isDomainAllowed that admits every email
isDomainAllowed_Any(email) == TRUE

\* isDomainAllowed
isDomainAllowed(email) ==
  LET domain == SplitAt1(email)
  IN IF ~Truthy(domain) THEN FALSE
     ELSE \E d \in allowedDomains : d.domain = domain

\* the profile GET /callback extracts from the account of the token response
ProfileOf(account) ==
  [oid   |-> account.oid,
   email |-> account.username,
   name  |-> IF Truthy(account.name) THEN account.name ELSE account.username]

\* getOrCreateUser: the row returned (as selected, before the update), the
\* table afterwards, and the error thrown ("" when none)
getOrCreateUser(profile) ==
  LET byOid   == {u \in users : u.microsoftId = profile.oid}
      byEmail == {u \in users : u.email = profile.email}
      isFirstAdmin == profile.email = FirstAdminEmail
      row == [id |-> nextUserId, microsoftId |-> profile.oid,
              email |-> profile.email, displayName |-> profile.name,
              role |-> IF isFirstAdmin THEN "admin" ELSE "user",
              lastLoginAt |-> now]
  IN IF byOid # {}
       THEN LET u == CHOOSE u \in byOid : TRUE
            IN [error |-> "", user |-> u, nextUserId |-> nextUserId,
                users |-> (users \ {u}) \cup {[u EXCEPT !.lastLoginAt = now]}]
     ELSE IF byEmail # {}
       THEN LET u == CHOOSE u \in byEmail : TRUE
            IN [error |-> "", user |-> u, nextUserId |-> nextUserId,
                users |-> (users \ {u}) \cup
                            {[u EXCEPT !.microsoftId = profile.oid,
                                       !.lastLoginAt = now]}]
     ELSE IF ~isDomainAllowed(profile.email) /\ ~isFirstAdmin
       THEN [error |-> DomainNotAllowedText, user |-> NoUser,
             nextUserId |-> nextUserId, users |-> users]
     ELSE [error |-> "", user |-> row, nextUserId |-> nextUserId + 1,
           users |-> users \cup {row}]

\* what GET /callback stores in req.session.user
SsoSnapshot(u) ==
  [id |-> u.id, email |-> u.email, displayName |-> u.displayName,
   role |-> u.role, microsoftId |-> u.microsoftId]

\* what the SSO routes leave alone
SsoFrame ==
  UNCHANGED <<vtokens, rtokens, nextToken, now, ticks, smtpConfigured,
              settings, topics, nextTopicId, registered, usedTokens>>

\* GET /login on session s: state is the random value drawn, urlOk whether
\* getAuthCodeUrl returned
GetLogin(s, state, urlOk) ==
  /\ SsoFrame
  /\ UNCHANGED <<users, nextUserId, session, allowedDomains, nextDomainId>>
  /\ authState' = [authState EXCEPT ![s] = state]
  /\ resp' = IF urlOk THEN Response("sso/login", 302, "")
             ELSE Response("sso/login", 500, "Failed to initiate login")

\* the outcomes of handleCallback(code): an exception, a response without
\* account, a response with the account of the principal who got the code
ExchangeThrows == [kind |-> "throws"]
ExchangeEmpty  == [kind |-> "empty"]
ExchangeOf(oid, username, name) ==
  [kind |-> "account", oid |-> oid, username |-> username, name |-> name]

\* GET /callback on session s with the query parameters state and code
\* (Missing when absent); exchange is what handleCallback(code) yields
GetCallback(s, state, code, exchange) ==
  /\ SsoFrame
  /\ UNCHANGED <<allowedDomains, nextDomainId, authState>>
  /\ IF state # authState[s]
       THEN /\ resp' = Response("sso/callback", 400, "Invalid state parameter")
            /\ UNCHANGED <<users, nextUserId, session>>
     ELSE IF ~Truthy(code)
       THEN /\ resp' = Response("sso/callback", 400, "No authorization code received")
            /\ UNCHANGED <<users, nextUserId, session>>
     ELSE IF exchange.kind = "throws"
       THEN /\ resp' = Response("sso/callback", 302, "Authentication failed")
            /\ UNCHANGED <<users, nextUserId, session>>
     ELSE IF exchange.kind = "empty"
       THEN /\ resp' = Response("sso/callback", 400, "Failed to get user information")
            /\ UNCHANGED <<users, nextUserId, session>>
     ELSE LET profile == ProfileOf(exchange)
              out == getOrCreateUser(profile)
          IN IF out.error # ""
               THEN /\ resp' = [Response("sso/callback", 302, out.error)
                                  EXCEPT !.email = profile.email]
                    /\ UNCHANGED <<users, nextUserId, session>>
               ELSE /\ users' = out.users
                    /\ nextUserId' = out.nextUserId
                    /\ session' = [session EXCEPT ![s] = SsoSnapshot(out.user)]
                    /\ resp' = [Response("sso/callback", 302, "")
                                  EXCEPT !.email = profile.email,
                                         !.user = SsoSnapshot(out.user)]

\* POST /logout of the SSO revision on session s: the session is destroyed,
\* the stored state with it
PostLogoutSso(s) ==
  /\ SsoFrame
  /\ UNCHANGED <<users, nextUserId, allowedDomains, nextDomainId>>
  /\ session' = [session EXCEPT ![s] = NoUser]
  /\ authState' = [authState EXCEPT ![s] = Missing]
  /\ resp' = Response("sso/logout", 200, "success")

\* POST /domains on session s
PostDomain(s, domain) ==
  /\ SsoFrame
  /\ UNCHANGED <<users, nextUserId, session, authState>>
  /\ IF ~requireAdmin(s)
       THEN /\ resp' = Response("domains/add", 403, ForbiddenText)
            /\ UNCHANGED <<allowedDomains, nextDomainId>>
     ELSE IF ~Truthy(domain)
       THEN /\ resp' = Response("domains/add", 400, "Invalid domain")
            /\ UNCHANGED <<allowedDomains, nextDomainId>>
     ELSE IF ~DomainRegexTest(domain)
       THEN /\ resp' = Response("domains/add", 400, "Invalid domain format")
            /\ UNCHANGED <<allowedDomains, nextDomainId>>
     ELSE /\ nextDomainId <= MaxDomains
          /\ nextDomainId' = nextDomainId + 1
          /\ IF \E d \in allowedDomains : d.domain = toLowerCase(domain)
               THEN /\ resp' = Response("domains/add", 400, "Domain already exists")
                    /\ UNCHANGED allowedDomains
               ELSE /\ allowedDomains' = allowedDomains \cup
                         {[id |-> nextDomainId, domain |-> toLowerCase(domain),
                           addedBy |-> session[s].id]}
                    /\ resp' = Response("domains/add", 200, "success")

\* DELETE /domains/:id on session s
DeleteDomain(s, id) ==
  /\ SsoFrame
  /\ UNCHANGED <<users, nextUserId, session, authState, nextDomainId>>
  /\ IF ~requireAdmin(s)
       THEN /\ resp' = Response("domains/delete", 403, ForbiddenText)
            /\ UNCHANGED allowedDomains
       ELSE /\ allowedDomains' = {d \in allowedDomains : d.id # id}
            /\ resp' = Response("domains/delete", 200, "success")

\* the state values drawn by GET /login and sent to GET /callback
StateInputs == {<<"p">>, <<"q">>}
CodeInputs == {Missing, <<"c">>}

\* what the identity provider can answer: the bootstrap admin, a user of the
\* domain p.io under two external ids, a user whose name is an address
\* without "@", a user of another domain under the external id of the second
ExchangeInputs ==
  {ExchangeThrows, ExchangeEmpty,
   ExchangeOf("o1", FirstAdminEmail, <<"F">>),
   ExchangeOf("o2", SsoAlice, <<"A">>),
   ExchangeOf("o3", SsoAlice, <<"A">>),
   ExchangeOf("o4", SsoNoAt, Missing),
   ExchangeOf("o2", SsoBob, <<"B">>)}

DomainInputs == {DomainPio, DomainPioUp, DomainShort, Missing}

SsoLogin ==
  /\ \E s \in AdminSessions, state \in StateInputs, urlOk \in BOOLEAN :
       GetLogin(s, state, urlOk)
  /\ UNCHANGED raceVars

SsoCallback ==
  /\ \E s \in AdminSessions, state \in StateInputs \cup {Missing},
        code \in CodeInputs, exchange \in ExchangeInputs :
       GetCallback(s, state, code, exchange)
  /\ UNCHANGED raceVars

SsoLogout ==
  /\ \E s \in AdminSessions : PostLogoutSso(s)
  /\ UNCHANGED raceVars

AddDomain ==
  /\ \E s \in AdminSessions, domain \in DomainInputs : PostDomain(s, domain)
  /\ UNCHANGED raceVars

RemoveDomain ==
  /\ \E s \in AdminSessions, id \in 1..MaxDomains : DeleteDomain(s, id)
  /\ UNCHANGED raceVars

\* the database of the SSO revision before the first login
InitSSO ==
  /\ users = {}
  /\ vtokens = {}
  /\ rtokens = {}
  /\ nextUserId = 1
  /\ nextToken = 1
  /\ now = 0
  /\ ticks = 0
  /\ smtpConfigured = FALSE
  /\ session = [s \in AdminSessions |-> NoUser]
  /\ resp = Response("none", 0, "")
  /\ registered = {}
  /\ usedTokens = {}
  /\ settings = {}
  /\ topics = {}
  /\ nextTopicId = 1
  /\ allowedDomains = {}
  /\ nextDomainId = 1
  /\ authState = [s \in DOMAIN session |-> Missing]
  /\ pc = [p \in Procs |-> "idle"]
  /\ loc = [p \in Procs |-> NoLocals]
  /\ resetCount = [t \in 1..MaxTokens |-> 0]
  /\ issuedLog = {}

NextSSO == SsoLogin \/ SsoCallback \/ SsoLogout \/ AddDomain \/ RemoveDomain

SpecSSO == InitSSO /\ [][NextSSO]_vars

\* ------------------------------------------------------------------ claims
\* the inputs the claims call valid: a well-formed email, a password of at
\* least eight characters, first and last name not blank
ValidRegistration(body) ==
  /\ EmailRegexTest(body[1])
  /\ Len(body[2]) >= 8
  /\ Trim(body[3]) # << >>
  /\ Trim(body[4]) # << >>

\* no user row holds the email, whatever the case
NotYetRegistered(email) ==
  \A u \in users : toLowerCase(u.email) # toLowerCase(email)

\* a login with the credentials of registration c would succeed now
LoginWouldSucceed(c) ==
  /\ LoginResponse(c.email, c.password).status = 200
  /\ LoginResponse(c.email, c.password).user.id = c.id

\* C1 as stated: a register with valid input and an email not yet registered
\* succeeds
C1_RegisterAlwaysSucceeds ==
  [][\A body \in RegisterInputs, sendOk \in BOOLEAN :
       (/\ resp'.op = "register"
        /\ ValidRegistration(body)
        /\ NotYetRegistered(body[1])
        /\ PostRegister(body[1], body[2], body[3], body[4], sendOk))
       => resp'.status = 200]_vars

\* the step of C1: a register with valid input and an email not yet registered
\* succeeds and stores a user row, unless mail is configured and the send of
\* the verification email fails
C1_RegisterStep ==
  \A body \in RegisterInputs, sendOk \in BOOLEAN :
    (/\ resp'.op = "register"
     /\ ValidRegistration(body)
     /\ NotYetRegistered(body[1])
     /\ ~smtpConfigured \/ sendOk
     /\ PostRegister(body[1], body[2], body[3], body[4], sendOk))
    => /\ resp'.status = 200
       /\ \E c \in registered' \ registered :
            /\ c.email = body[1] /\ c.password = body[2]
            /\ \E u \in users' : u.id = c.id

\* the state of C1: for every registration whose password was not changed
\* since, a login with the same email and password succeeds once its
\* verification token was consumed, or at once where no mail is configured
C1_LoginAfterRegister ==
  \A c \in registered :
    (c.token = 0 \/ c.token \in usedTokens) => LoginWouldSucceed(c)

\* C1 (amended): register succeeds on valid input and a fresh email unless the
\* verification email cannot be sent, and then a login with the same
\* credentials succeeds once the email is verified, or at once in degraded mode
C1_RegisterThenLogin == [][C1_RegisterStep]_vars /\ []C1_LoginAfterRegister

\* C1 witness: mail is configured, the token of a registration was consumed,
\* and the login with the registration's credentials has succeeded
C1_Witness ==
  \E c \in registered :
    /\ c.token # 0 /\ c.token \in usedTokens
    /\ resp.op = "login" /\ resp.status = 200 /\ resp.user.id = c.id
    /\ session["s1"] # NoUser /\ session["s1"].id = c.id

\* the step is a request to route op, handled to its response
Handled(op) == resp'.op = op /\ ticks' = ticks

VerifyFirstText == "Please verify your email before logging in"
BadLoginText == "Invalid email or password"
BadVerificationTokenText == "Invalid or expired verification token"
BadResetTokenText == "Invalid or expired reset token"
DuplicateText == "User with this email already exists"
SendFailedText == "Failed to send verification email. Please check your email configuration."

\* the step of C2: a login that matches an unverified user ends 401, with the
\* verify-first message when the password is right, and changes neither the
\* users table (lastLoginAt) nor the session
C2_LoginStep ==
  \A s \in Sessions, body \in LoginInputs :
    (/\ Handled("login")
     /\ Truthy(body[1]) /\ Truthy(body[2])
     /\ \E u \in UserByEmail(toLowerCase(body[1])) : ~u.emailVerified
     /\ PostLogin(s, body[1], body[2]))
    => /\ resp'.status = 401
       /\ resp'.user = NoUser
       /\ (\E u \in UserByEmail(toLowerCase(body[1])) :
             verifyPassword(body[2], u.passwordHash)) => resp'.msg = VerifyFirstText
       /\ UNCHANGED <<users, session>>

\* the state of C2: every user snapshot in a session has emailVerified = true
C2_SessionsVerified ==
  \A s \in Sessions : session[s] # NoUser => session[s].emailVerified

\* C2: login never succeeds for a user whose emailVerified is false: with the
\* right password it fails with the verify-first error, lastLoginAt is not
\* updated, the session gets no snapshot, and so every snapshot in a session
\* has emailVerified = true
C2_NoLoginUnverified == [][C2_LoginStep]_vars /\ []C2_SessionsVerified

\* C2 witness: a registered user, still unverified, has presented the right
\* password and was refused
C2_Witness ==
  /\ resp = Response("login", 401, VerifyFirstText)
  /\ \E c \in registered : \E u \in users :
       /\ u.id = c.id /\ ~u.emailVerified /\ u.lastLoginAt = NoTime
       /\ c.token \notin usedTokens
  /\ session["s1"] = NoUser

\* C3: a register whose email equals the email of an existing user up to case
\* fails with the duplicate error and creates no user row and no token (stated
\* for the requests whose verification email, if any, can be sent)
C3_DuplicateRejected ==
  [][\A body \in RegisterInputs, sendOk \in {TRUE} :
       (/\ Handled("register")
        /\ Truthy(body[1]) /\ Truthy(body[2]) /\ Truthy(body[3]) /\ Truthy(body[4])
        /\ EmailRegexTest(body[1])
        /\ ~NotYetRegistered(body[1])
        /\ PostRegister(body[1], body[2], body[3], body[4], sendOk))
       => /\ resp'.status = 400
          /\ resp'.msg = DuplicateText
          /\ users' = users
          /\ vtokens' = vtokens]_vars

\* the login body names an existing user and a password that is not theirs
WrongPassword(body) ==
  /\ Truthy(body[1]) /\ Truthy(body[2])
  /\ \E u \in UserByEmail(toLowerCase(body[1])) : ~verifyPassword(body[2], u.passwordHash)

\* the login body names no user
UnknownEmail(body) ==
  /\ Truthy(body[1]) /\ Truthy(body[2])
  /\ UserByEmail(toLowerCase(body[1])) = {}

\* the state of C4: the two failures answer alike
C4_SameOutcome ==
  \A b1 \in LoginInputs, b2 \in LoginInputs :
    (WrongPassword(b1) /\ UnknownEmail(b2))
      => /\ LoginResponse(b1[1], b1[2]) = LoginResponse(b2[1], b2[2])
         /\ LoginResponse(b1[1], b1[2]) = Response("login", 401, BadLoginText)

\* the step of C4: a login that fails either way changes nothing stored
C4_LoginStep ==
  \A s \in Sessions, body \in LoginInputs :
    (/\ Handled("login")
     /\ WrongPassword(body) \/ UnknownEmail(body)
     /\ PostLogin(s, body[1], body[2]))
    => UNCHANGED <<users, vtokens, rtokens, session>>

\* C4: a login with an existing email and a wrong password and a login with an
\* email of no user get the same status and the same message, and neither
\* changes stored state
C4_LoginUniform == [][C4_LoginStep]_vars /\ []C4_SameOutcome

\* C4 witness: an existing user was refused for a wrong password, while some
\* other login body names no user
C4_Witness ==
  /\ resp = Response("login", 401, BadLoginText)
  /\ \E b1 \in LoginInputs, b2 \in LoginInputs :
       /\ WrongPassword(b1) /\ UnknownEmail(b2)
       /\ \E c \in registered : toLowerCase(c.email) = toLowerCase(b1[1])
  /\ \A b \in LoginInputs : LoginResponse(b[1], b[2]).status # 200

\* the step of C5, acceptance: the token row is deleted and its owner verified
C5_AcceptStep ==
  (Handled("verify-email") /\ resp'.msg = "verified=true")
    => \E t \in vtokens :
         /\ t.token = resp'.token
         /\ \A t2 \in vtokens' : t2.token # resp'.token
         /\ \E u \in users' : u.id = t.userId /\ u.emailVerified

\* the step of C5, later use: a token accepted before is refused and nothing
\* stored changes
C5_ReuseStep ==
  (Handled("verify-email") /\ resp'.token \in usedTokens)
    => /\ resp' = TokenResponse("verify-email", 302, BadVerificationTokenText, resp'.token)
       /\ UNCHANGED <<users, vtokens, rtokens>>

\* the state of C5: verifyEmailToken refuses every token accepted before
C5_UsedRefused ==
  \A t \in usedTokens : verifyEmailToken(t).err = BadVerificationTokenText

\* C5: a verification token is accepted exactly once: its acceptance sets the
\* owner's emailVerified and deletes the token, and every later
\* verifyEmailToken of it fails as invalid or expired
C5_VerificationSingleUse ==
  [][C5_AcceptStep /\ C5_ReuseStep]_vars /\ []C5_UsedRefused

\* C5 witness: a token accepted before was presented again, within its
\* lifetime, and refused
C5_Witness ==
  /\ resp.op = "verify-email" /\ resp.token \in usedTokens
  /\ resp.msg = BadVerificationTokenText
  /\ ticks = 0
  /\ \E c \in registered : \E u \in users :
       c.token = resp.token /\ u.id = c.id /\ u.emailVerified

\* the reset-token rows of token that are past their time
ExpiredResetRows(token) == {t \in rtokens : t.token = token /\ t.expiresAt <= now}

\* the verification-token rows of token that are past their time
ExpiredVerificationRows(token) == {t \in vtokens : t.token = token /\ t.expiresAt <= now}

\* a service result that left every table as it is
TablesKept(r) == r.users = users /\ r.vtokens = vtokens /\ r.rtokens = rtokens

\* the state of C7, lifetimes: one hour for a reset token, 24 for a
\* verification token
C7_Lifetimes ==
  /\ \A t \in rtokens : t.expiresAt = t.createdAt + 1
  /\ \A t \in vtokens : t.expiresAt = t.createdAt + 24

\* the state of C7, rejection: the three operations refuse a token at or after
\* its expiresAt and leave the tables as they are
C7_ExpiredRefused ==
  \A token \in 1..MaxTokens :
    /\ ExpiredResetRows(token) # {} =>
         /\ verifyPasswordResetToken(token) = << >>
         /\ \A pw \in NewPasswordInputs :
              LET r == resetPasswordWithToken(token, pw)
              IN  r.err = BadResetTokenText /\ TablesKept(r)
    /\ ExpiredVerificationRows(token) # {} =>
         LET r == verifyEmailToken(token)
         IN  r.err = BadVerificationTokenText /\ TablesKept(r)

\* the step of C7: a request that presents a token at or after its expiresAt
\* is answered with an error and changes no table
C7_ExpiredStep ==
  /\ (Handled("reset-password") /\ ExpiredResetRows(resp'.token) # {})
       => resp'.status = 400 /\ UNCHANGED <<users, vtokens, rtokens>>
  /\ (Handled("reset-password/verify") /\ ExpiredResetRows(resp'.token) # {})
       => /\ resp' = TokenResponse("reset-password/verify", 400, BadResetTokenText, resp'.token)
          /\ UNCHANGED <<users, vtokens, rtokens>>
  /\ (Handled("verify-email") /\ ExpiredVerificationRows(resp'.token) # {})
       => /\ resp' = TokenResponse("verify-email", 302, BadVerificationTokenText, resp'.token)
          /\ UNCHANGED <<users, vtokens, rtokens>>

\* C7: a reset token lives one hour and a verification token 24; presented at
\* a time not strictly before its expiresAt, a token is rejected by
\* resetPasswordWithToken, verifyPasswordResetToken and verifyEmailToken, and
\* the rejection changes neither the users table nor the token tables
C7_TokensExpire ==
  [][C7_ExpiredStep]_vars /\ [](C7_Lifetimes /\ C7_ExpiredRefused)

\* C7 witness: a reset with a good password was refused at the very hour the
\* token expires, and the token row is still stored
C7_Witness ==
  /\ resp.op = "reset-password" /\ resp.msg = BadResetTokenText
  /\ \E t \in rtokens : t.token = resp.token /\ t.expiresAt = now

\* the step of C10: where mail is configured and the send fails, register
\* answers with the send-failed error, no user row and no verification token
\* was added, and registerUser with the same input and a send that works would
\* now succeed
C10_RollbackStep ==
  \A body \in RegisterInputs :
    (/\ Handled("register")
     /\ smtpConfigured
     /\ ValidRegistration(body)
     /\ UserByEmail(toLowerCase(body[1])) = {}
     /\ PostRegister(body[1], body[2], body[3], body[4], FALSE))
    => /\ resp' = Response("register", 400, SendFailedText)
       /\ users' = users
       /\ \A u \in users' : u.email # toLowerCase(body[1])
       /\ vtokens' = vtokens
       /\ \A t \in vtokens' : t.userId # nextUserId
       /\ (registerUser(body[1], body[2], body[3], body[4], TRUE).err = "")'

\* C10: registration is all-or-nothing with respect to the verification
\* email: when mail is configured and the send fails, register fails with the
\* send-failed error, neither a user row with the email nor a verification
\* token for it remains, and a later register with the email is not a duplicate
C10_RegisterRollback == [][C10_RollbackStep]_vars

\* C10 witness: the first register failed at the send and left the tables as
\* the migration made them, with one user id and one token consumed
C10_Witness ==
  /\ resp = Response("register", 400, SendFailedText)
  /\ users = {SeedAdminRow} /\ vtokens = {}
  /\ nextUserId = 3 /\ nextToken = 2

\* C6: of the reset-password requests that present one reset token, whatever
\* their interleaving, at most one succeeds in changing the password
C6_ResetSingleUse == \A t \in 1..MaxTokens : resetCount[t] <= 1

\* the token is refused by verifyPasswordResetToken and, whatever the new
\* password, by resetPasswordWithToken, which leaves the tables as they are
ResetTokenRefused(token) ==
  /\ verifyPasswordResetToken(token) = << >>
  /\ \A pw \in NewPasswordInputs :
       LET r == resetPasswordWithToken(token, pw)
       IN  r.err = BadResetTokenText /\ TablesKept(r)

\* C8: once createPasswordResetToken has returned a new token for a user,
\* every reset token issued for that user earlier is rejected by
\* verifyPasswordResetToken and by resetPasswordWithToken
C8_NewTokenInvalidatesEarlier ==
  \A e \in issuedLog : \A old \in e.earlier : ResetTokenRefused(old)

\* C8 restricted to calls that do not overlap: every reset token returned
\* for the user before the call began is rejected once the call has returned
C8_InvalidatesTokensBeforeCall ==
  \A e \in issuedLog : \A old \in e.prior : ResetTokenRefused(old)

\* a second token was returned for a user by a call that began after the
\* first was returned, no reset has consumed the first, and the second is live
C8_SequentialCase ==
  \E e \in issuedLog :
    /\ e.prior # {}
    /\ \A old \in e.prior : resetCount[old] = 0
    /\ verifyPasswordResetToken(e.token) # << >>

\* C9: in every reachable state, whatever the interleaving of
\* createPasswordResetToken calls, each user owns at most one reset token
C9_OneResetTokenPerUser ==
  \A u \in users : Cardinality({t \in rtokens : t.userId = u.id}) <= 1


\* everything a request may change but its response is as it was
OnlyResponds ==
  UNCHANGED <<users, vtokens, rtokens, nextUserId, nextToken, session,
              settings, registered, usedTokens, smtpConfigured, sideVars>>

\* the session of the request carries no user snapshot
Anonymous(s) == session[s] = NoUser

\* C11: on the routes gated by requireAuth (GET /me, PATCH /profile/password,
\* PUT /api/settings/:key) a request whose session carries a user snapshot is
\* handled as that user (GET /me answers with the snapshot, the password that
\* changes is that of the snapshot's id), and a request whose session carries
\* none gets 401 Unauthorized and changes nothing
C11_Step ==
  resp'.op \in {"me", "profile/password", "settings"} =>
    \A s \in AdminSessions :
      /\ GetMe(s) /\ UNCHANGED raceVars =>
           IF Anonymous(s)
             THEN resp' = Response("me", 401, "Unauthorized")
             ELSE resp'.status = 200 /\ resp'.user = session[s]
      /\ \A currentPassword \in CurrentPasswordInputs, newPassword \in ChangedPasswordInputs :
           PatchProfilePassword(s, currentPassword, newPassword) /\ UNCHANGED raceVars =>
             IF Anonymous(s)
               THEN resp' = Response("profile/password", 401, "Unauthorized")
                    /\ OnlyResponds
               ELSE /\ resp'.status # 401
                    /\ \A u \in users : u.id # session[s].id => u \in users'
      /\ \A value \in SettingInputs :
           PutSetting(s, "geminiModel", value) /\ UNCHANGED raceVars =>
             IF Anonymous(s)
               THEN resp' = Response("settings", 401, "Unauthorized") /\ OnlyResponds
               ELSE resp'.status # 401

C11_RequireAuth == [][C11_Step]_vars

\* GET /me has answered with the snapshot of a session
C11_Witness ==
  /\ resp.op = "me" /\ resp.status = 200
  /\ \E s \in AdminSessions : session[s] # NoUser /\ resp.user = session[s]

\* the request on session s is refused by requireAdmin alone
RefusedByAdminGate(s) ==
  /\ session[s] = NoUser \/ session[s].role # "admin"
  /\ resp'.status = 403 /\ resp'.msg = "Forbidden: Admin access required"
  /\ OnlyResponds

\* the session of the request carries the snapshot of an admin
AdminSession(s) == session[s] # NoUser /\ session[s].role = "admin"

\* the three admin routes of the auth router answer 403 to every request
\* whose session carries no admin snapshot and change nothing then
C12_AuthRoutesStep(s) ==
  /\ GetUsers(s) /\ UNCHANGED raceVars =>
       IF AdminSession(s) THEN resp'.status = 200 ELSE RefusedByAdminGate(s)
  /\ \A id \in UserIdInputs :
       /\ DeleteUser(s, id) /\ UNCHANGED raceVars =>
            IF AdminSession(s) THEN resp'.status # 403 ELSE RefusedByAdminGate(s)
       /\ \A role \in RoleInputs :
            PatchUserRole(s, id, role) /\ UNCHANGED raceVars =>
              IF AdminSession(s) THEN resp'.status # 403 ELSE RefusedByAdminGate(s)

\* C12 as stated: on every route gated by requireAdmin, the settings update
\* among them, a request whose session carries no admin snapshot, anonymous
\* or of role user, gets 403 Forbidden and changes nothing
C12_Original ==
  [][resp'.op \in {"users", "users/role", "users/delete", "settings"} =>
       \A s \in AdminSessions :
         /\ C12_AuthRoutesStep(s)
         /\ \A value \in SettingInputs :
              PutSetting(s, "geminiModel", value) /\ UNCHANGED raceVars =>
                IF AdminSession(s) THEN resp'.status # 403 ELSE RefusedByAdminGate(s)]_vars

\* C12: the handler of a route gated by requireAdmin runs only for a session
\* with an admin snapshot; every other request changes nothing and gets 403
\* Forbidden, except that PUT /api/settings/:key, gated by requireAuth before
\* requireAdmin, answers an anonymous request with 401 Unauthorized
C12_RequireAdmin ==
  [][resp'.op \in {"users", "users/role", "users/delete", "settings"} =>
       \A s \in AdminSessions :
         /\ C12_AuthRoutesStep(s)
         /\ \A value \in SettingInputs :
              PutSetting(s, "geminiModel", value) /\ UNCHANGED raceVars =>
                IF AdminSession(s) THEN resp'.status \notin {401, 403}
                ELSE IF Anonymous(s)
                  THEN resp' = Response("settings", 401, "Unauthorized") /\ OnlyResponds
                ELSE RefusedByAdminGate(s)]_vars

\* a request on a session of role user has been refused by an admin route
C12_Witness ==
  /\ resp.status = 403 /\ resp.op \in {"users/role", "users/delete", "settings"}
  /\ \E s \in AdminSessions : session[s] # NoUser /\ session[s].role = "user"
  /\ \A s \in AdminSessions : session[s] = NoUser \/ session[s].role # "admin"


\* the role stored for user id ("" when there is no such row)
StoredRole(us, id) ==
  IF \E u \in us : u.id = id
    THEN (CHOOSE u \in us : u.id = id).role
    ELSE ""

\* a PATCH /users/:id/role that succeeds stores the role, so that GET /users
\* lists it, and leaves the snapshot of every session as it was
C13_PatchStep ==
  resp'.op = "users/role" /\ resp'.status = 200 =>
    \A s \in AdminSessions, id \in UserIdInputs, role \in RoleInputs :
      PatchUserRole(s, id, role) /\ UNCHANGED raceVars =>
        /\ \A row \in {UserListing(u) : u \in users'} : row.id = id => row.role = role
        /\ \A x \in AdminSessions : session'[x] = session[x]

\* the snapshot of a session comes, goes, or changes its role with a login or
\* a logout on it and with nothing else; a login takes the role that is stored
\* then
C13_SnapshotStep ==
  \A s \in AdminSessions :
    /\ session'[s] # session[s]
    /\ \/ session'[s] = NoUser
       \/ session[s] = NoUser
       \/ session'[s].role # session[s].role
    =>
      \/ resp'.op = "logout" /\ session'[s] = NoUser
      \/ /\ resp'.op = "login" /\ resp'.status = 200
         /\ session'[s].role = StoredRole(users', session'[s].id)

\* GET /me reports the role of the snapshot and requireAdmin decides on it,
\* whatever role is stored by then
C13_DecidedOnSnapshot ==
  resp'.op \in {"me", "users"} =>
    \A s \in AdminSessions :
      /\ GetMe(s) /\ UNCHANGED raceVars /\ session[s] # NoUser =>
           resp'.user.role = session[s].role
      /\ GetUsers(s) /\ UNCHANGED raceVars /\ session[s] # NoUser =>
           (resp'.status = 200 <=> session[s].role = "admin")

\* C13: after an admin changes the role of user U with PATCH /users/:id/role,
\* GET /users reports the new role, and every session of U keeps the role of
\* its snapshot (GET /me reports it, requireAdmin decides on it) until U logs
\* in again on it
C13_RoleChangeStaleSessions ==
  [][C13_PatchStep /\ C13_SnapshotStep /\ C13_DecidedOnSnapshot]_vars

\* GET /me has reported role user on a session of a user whom the admin of the
\* other session has promoted since
C13_Witness ==
  /\ resp.op = "me" /\ resp.status = 200 /\ resp.user.role = "user"
  /\ StoredRole(users, resp.user.id) = "admin"
  /\ \E sU, sA \in AdminSessions :
       /\ session[sU] = resp.user
       /\ session[sA] # NoUser /\ session[sA].role = "admin"
       /\ session[sA].id # session[sU].id


\* the rows of us whose id has no row in vs
Removed(us, vs) == {u \in us : \A v \in vs : v.id # u.id}

\* C14: a DELETE /users/:id whose id is that of the acting admin's snapshot
\* is answered 400 and changes nothing; no DELETE /users/:id removes the row
\* of the user who sends it
C14_Step ==
  resp'.op = "users/delete" =>
    \A s \in AdminSessions, id \in UserIdInputs :
      DeleteUser(s, id) /\ UNCHANGED raceVars =>
        /\ AdminSession(s) /\ session[s].id = id =>
             /\ resp' = Response("users/delete", 400, "Cannot delete your own account")
             /\ OnlyResponds
        /\ \A u \in Removed(users, users') : ~Anonymous(s) /\ u.id # session[s].id

C14_NoSelfDelete == [][C14_Step]_vars

\* an admin has asked to delete the own account, which is still there
C14_Witness ==
  /\ resp = Response("users/delete", 400, "Cannot delete your own account")
  /\ \E s \in AdminSessions :
       /\ session[s] # NoUser /\ session[s].role = "admin"
       /\ UserById(session[s].id) # {}

\* C15: a PATCH /users/:id/role whose id is that of the acting admin's
\* snapshot does not change the role stored for that user
C15_NoSelfDemotion ==
  [][resp'.op = "users/role" =>
       \A s \in AdminSessions, id \in UserIdInputs, role \in RoleInputs :
         /\ PatchUserRole(s, id, role) /\ UNCHANGED raceVars
         /\ AdminSession(s) /\ session[s].id = id
         => StoredRole(users', id) = StoredRole(users, id)]_vars

\* the row u goes with a DELETE /users/:id that passed requireAdmin
RemovedByAdmin(u) ==
  /\ resp'.op = "users/delete" /\ resp'.status = 200
  /\ \E s \in AdminSessions :
       AdminSession(s) /\ DeleteUser(s, u.id) /\ UNCHANGED raceVars

\* the row u goes with the rollback of the registration that inserted it
RemovedByRollback(u) ==
  \E p \in Procs :
    /\ pc[p] = "register_rollback" /\ loc[p].userId = u.id
    /\ RaceRegisterRollback(p)

\* C16 as stated: a user row goes only with a DELETE /users/:id that passed
\* requireAdmin
C16_Original ==
  [][\A u \in Removed(users, users') : RemovedByAdmin(u)]_vars

\* C16: a user row goes only with a DELETE /users/:id that passed
\* requireAdmin, or when registerUser, its verification email not sent,
\* deletes the row it has just inserted
C16_DeletedOnlyByAdminOrRollback ==
  [][\A u \in Removed(users, users') : RemovedByAdmin(u) \/ RemovedByRollback(u)]_vars

\* an admin has deleted the row of the test admin
C16_Witness ==
  /\ resp.op = "users/delete" /\ resp.status = 200
  /\ UserById(TestAdminRow.id) = {}
  /\ \E s \in AdminSessions : session[s] # NoUser /\ session[s].role = "admin"


\* no two user rows have the same email
C17_EmailUnique == \A u, v \in users : u.email = v.email => u.id = v.id

\* an insert of registerUser that finds its email stored by then adds no row
C17_InsertStep ==
  \A p \in Procs :
    /\ pc[p] = "register_insert" /\ pc'[p] # "register_insert"
    /\ \E u \in users : u.email = loc[p].email
    => users' = users

\* C17: in every reachable state no two user rows have the same email; of
\* two register calls with case-insensitively equal emails that have both
\* passed the select, the unique constraint of the table lets only the first
\* insert add a row
C17_UniqueUnderConcurrency == [][C17_InsertStep]_vars /\ []C17_EmailUnique

\* two registrations of one email have both reached the insert: the first
\* has added its row, the second has used up a serial and added none
C17_Witness ==
  /\ \A p \in Procs : pc[p] = "idle"
  /\ nextUserId = 4
  /\ UserById(2) # {} /\ UserById(3) = {}
  /\ Cardinality(users) = 2


\* C18: every email stored in a user row is lowercase
C18_StoredLowercase == \A u \in users : u.email = toLowerCase(u.email)

\* C19: a PATCH /profile/password that fails leaves the stored hashes as they
\* were; with the current password right and the new one shorter than eight
\* characters it fails with 400
C19_Step ==
  resp'.op = "profile/password" =>
    \A s \in AdminSessions, currentPassword \in CurrentPasswordInputs,
       newPassword \in ChangedPasswordInputs :
      PatchProfilePassword(s, currentPassword, newPassword) /\ UNCHANGED raceVars =>
        /\ resp'.status # 200 => users' = users
        /\ /\ \E u \in users : u.id = session[s].id
                                /\ verifyPassword(currentPassword, u.passwordHash)
           /\ Len(newPassword) < 8
           => /\ resp' = Response("profile/password", 400,
                                  "New password must be at least 8 characters long")
              /\ users' = users

C19_FailedChangeKeepsHash == [][C19_Step]_vars

\* a new password too short has been refused on the session of a user whose
\* stored password is still one of the current passwords sent
C19_Witness ==
  /\ resp = Response("profile/password", 400,
                     "New password must be at least 8 characters long")
  /\ \E s \in AdminSessions, currentPassword \in CurrentPasswordInputs :
       \E u \in users : u.id = session[s].id
                        /\ verifyPassword(currentPassword, u.passwordHash)

\* the passwords of the runs
PasswordUniverse == {PwGood, PwOther, PwShort, PwAdmin}

\* the frame of a reset that succeeds with the token row t and newPassword:
\* the owner's hash verifies newPassword, the row t is gone, every other token
\* row and every other user row is as it was
C20_Frame(t, newPassword) ==
  /\ \E u \in users' : u.id = t.userId /\ verifyPassword(newPassword, u.passwordHash)
  /\ \A x \in rtokens' : x.token # t.token
  /\ rtokens' = rtokens \ {t}
  /\ vtokens' = vtokens
  /\ \A u \in users : u.id # t.userId => u \in users'
  /\ Cardinality(users') = Cardinality(users)

\* the passwords the hash stored for user id verifies
Verifies(us, id) ==
  {q \in PasswordUniverse : \E u \in us : u.id = id /\ verifyPassword(q, u.passwordHash)}

\* C20 as stated: after a reset that succeeds the owner's hash verifies the
\* new password and no longer the previous one, the token is gone, and no
\* other user's hash or token has changed
C20_Original ==
  [][resp'.op = "reset-password" /\ resp'.status = 200 =>
       \A token \in TokenInputs, newPassword \in NewPasswordInputs :
         PostResetPassword(token, newPassword) /\ UNCHANGED raceVars =>
           \A t \in LiveResetTokens(token) :
             /\ C20_Frame(t, newPassword)
             /\ Verifies(users, t.userId) \cap Verifies(users', t.userId) = {}]_vars

\* C20: after a reset that succeeds the owner's hash verifies the new
\* password and none else (so no longer the previous one, unless the new
\* password is the previous one), the token is gone, and no other user's hash
\* or token has changed
C20_ResetFrame ==
  [][resp'.op = "reset-password" /\ resp'.status = 200 =>
       \A token \in TokenInputs, newPassword \in NewPasswordInputs :
         PostResetPassword(token, newPassword) /\ UNCHANGED raceVars =>
           \A t \in LiveResetTokens(token) :
             /\ C20_Frame(t, newPassword)
             /\ Verifies(users', t.userId) = {newPassword}]_vars

\* the test admin has reset the password with a token that is gone, while
\* another user holds a token
C20_Witness ==
  /\ resp.op = "reset-password" /\ resp.status = 200
  /\ \A x \in rtokens : x.token # resp.token
  /\ \E u \in users :
       /\ u.id = TestAdminRow.id /\ ~verifyPassword(PwAdmin, u.passwordHash)
       /\ \E x \in rtokens \cup vtokens : x.userId # u.id


\* the email is that of a user row, whatever the case of its letters
ExistingEmail(email) == \E u \in users : toLowerCase(u.email) = toLowerCase(email)

\* the well-formed emails among those sent to POST /forgot-password
WellFormedForgotInputs == {e \in ForgotInputs : Truthy(e) /\ EmailRegexTest(e)}

\* C21: with the mail configuration and the outcome of the send fixed, POST
\* /forgot-password answers the well-formed email of an existing user and the
\* well-formed email of no user with the same status and the same body
C21_ForgotUniform ==
  \A sendOk \in SendOutcomes :
    \A e1, e2 \in WellFormedForgotInputs :
      ExistingEmail(e1) /\ ~ExistingEmail(e2) =>
        ForgotPasswordResponse(e1, sendOk) = ForgotPasswordResponse(e2, sendOk)


\* a POST /logout succeeds and leaves its session without a user snapshot
C22_LogoutStep ==
  resp'.op = "logout" =>
    \A s \in AdminSessions :
      PostLogout(s) /\ UNCHANGED raceVars =>
        resp'.status = 200 /\ session'[s] = NoUser

\* a session without a user snapshot gets one only with a successful POST
\* /login on it
C22_OnlyLoginAuthenticates ==
  \A s \in AdminSessions :
    session[s] = NoUser /\ session'[s] # NoUser =>
      /\ resp'.op = "login" /\ resp'.status = 200
      /\ \E body \in AdminLoginInputs : PostLogin(s, body[1], body[2])

\* every request on a session without a user snapshot to a route gated by
\* requireAuth or requireAdmin is rejected and changes nothing
C22_Rejected ==
  resp'.op \in {"me", "profile/password", "settings", "users", "users/role",
                "users/delete"} =>
    \A s \in AdminSessions :
      session[s] = NoUser =>
        /\ GetMe(s) /\ UNCHANGED raceVars => resp'.status = 401 /\ OnlyResponds
        /\ GetUsers(s) /\ UNCHANGED raceVars => resp'.status = 403 /\ OnlyResponds
        /\ \A currentPassword \in CurrentPasswordInputs,
              newPassword \in ChangedPasswordInputs :
             PatchProfilePassword(s, currentPassword, newPassword) /\ UNCHANGED raceVars
               => resp'.status = 401 /\ OnlyResponds
        /\ \A value \in SettingInputs :
             PutSetting(s, "geminiModel", value) /\ UNCHANGED raceVars
               => resp'.status = 401 /\ OnlyResponds
        /\ \A id \in UserIdInputs :
             /\ DeleteUser(s, id) /\ UNCHANGED raceVars
                  => resp'.status = 403 /\ OnlyResponds
             /\ \A role \in RoleInputs :
                  PatchUserRole(s, id, role) /\ UNCHANGED raceVars
                    => resp'.status = 403 /\ OnlyResponds

\* C22: after a POST /logout the session carries no user snapshot, and every
\* later request on it to a route gated by requireAuth or requireAdmin is
\* rejected until a POST /login on it succeeds
C22_LogoutTerminal ==
  [][C22_LogoutStep /\ C22_OnlyLoginAuthenticates /\ C22_Rejected]_vars

\* a user has logged in, every session has been logged out since, and a gated
\* request has been rejected
C22_Witness ==
  /\ resp.op \in {"me", "users"} /\ resp.status \in {401, 403}
  /\ \A s \in AdminSessions : session[s] = NoUser
  /\ \E u \in users : u.lastLoginAt # NoTime


\* C23: after a PATCH /profile/name that succeeds, firstName, lastName and
\* displayName of the snapshot in the session of the request equal those of
\* the stored row of its user
C23_SessionRefreshed ==
  [][resp'.op = "profile/name" /\ resp'.status = 200 =>
       \A s \in AdminSessions, body \in NameInputs :
         PatchProfileName(s, body[1], body[2]) /\ UNCHANGED raceVars =>
           \E u \in users' :
             /\ u.id = session'[s].id
             /\ session'[s].firstName = u.firstName
             /\ session'[s].lastName = u.lastName
             /\ session'[s].displayName = u.displayName]_vars

\* C27: the stored role of a user changes only with a request on a session
\* that carries an admin snapshot (PATCH /users/:id/role), and emailVerified
\* of a stored user becomes true only with a GET /verify-email that accepts a
\* token
C27_PrivilegeAuthorized ==
  [][\A u \in users, v \in users' :
       u.id = v.id =>
         /\ u.role # v.role =>
              /\ resp'.op = "users/role"
              /\ \E s \in AdminSessions : AdminSession(s)
         /\ ~u.emailVerified /\ v.emailVerified =>
              /\ resp'.op = "verify-email" /\ resp'.status = 302
              /\ resp'.msg = "verified=true"]_vars

\* C28: no response carries the password hash of a user
C28_NoHashInResponse ==
  /\ "passwordHash" \notin DOMAIN resp.user
  /\ \A row \in resp.list : "passwordHash" \notin DOMAIN row


\* C29: a session that passes requireAuth or requireAdmin carries the
\* snapshot of a user whose row exists
C29_SessionsOfExistingUsers ==
  \A s \in DOMAIN session :
    requireAuth(s) \/ requireAdmin(s) => UserById(session[s].id) # {}


\* C26: GET /api/topics returns only topics whose userId is the id of the
\* snapshot in the session of the request, and a topic created by POST
\* /api/topics has that id as its userId, whatever userId the body carries
C26_Step ==
  resp'.op \in {"topics", "topics/create"} =>
    \A s \in AdminSessions :
      /\ GetTopics(s) /\ UNCHANGED raceVars /\ resp'.status = 200 =>
           /\ ~Anonymous(s)
           /\ \A t \in resp'.list : t.userId = session[s].id
      /\ \A body \in TopicInputs, handled \in BOOLEAN :
           PostTopic(s, body, handled) /\ UNCHANGED raceVars =>
             /\ \A t \in topics' \ topics : ~Anonymous(s) /\ t.userId = session[s].id
             /\ topics \subseteq topics'

C26_TopicIsolation == [][C26_Step]_vars

\* a user has created a topic with the id of another user in the body, the
\* topic is their own, and the topic of the other user is not in the answer
C26_Witness ==
  /\ resp.op = "topics/create" /\ resp.status = 201
  /\ \E s \in AdminSessions, t \in resp.list :
       /\ session[s] # NoUser /\ t.userId = session[s].id
       /\ t \in topics
       /\ \E o \in topics : o.userId # t.userId

\* every verification token and every reset token belongs to a user row
C24_TokensBound == \A t \in vtokens \cup rtokens : UserById(t.userId) # {}

\* a DELETE /users/:id of an admin for another user whose row exists answers
\* success and removes the row and every token of that user
C24_DeleteStep ==
  resp'.op = "users/delete" =>
    \A s \in AdminSessions, id \in UserIdInputs :
      /\ DeleteUser(s, id) /\ UNCHANGED raceVars
      /\ AdminSession(s) /\ session[s].id # id /\ UserById(id) # {}
      => /\ resp'.status = 200
         /\ \A u \in users' : u.id # id
         /\ \A t \in vtokens' \cup rtokens' : t.userId # id

\* C24: in every reachable state each verification token and each reset token
\* belongs to a user row that exists, and a DELETE /users/:id of an admin for
\* another existing user removes that user with all tokens and succeeds
C24_CascadeDelete == [][C24_DeleteStep]_vars /\ []C24_TokensBound

\* the email has an "@" and what follows it is a domain of the whitelist
DomainWhitelisted(email) ==
  \E i \in 1..Len(email) :
    /\ email[i] = "@"
    /\ \E d \in allowedDomains : d.domain = SubSeq(email, i + 1, Len(email))

\* the ids of the rows of a users table
RowIds(us) == {u.id : u \in us}

\* a GET /callback that gets as far as getOrCreateUser: a profile that matches
\* a row by external id or by email is admitted and adds no row; any other
\* profile adds a row only if its domain is whitelisted or its email is the
\* bootstrap admin's, and is otherwise refused with the table as it was
C25_Step ==
  resp'.op = "sso/callback" /\ Truthy(resp'.email) =>
    \A s \in AdminSessions,
       exchange \in {x \in ExchangeInputs : x.kind = "account"} :
      /\ exchange.username = resp'.email
      /\ GetCallback(s, authState[s], <<"c">>, exchange) /\ UNCHANGED raceVars
      => LET profile  == ProfileOf(exchange)
             matching == {u \in users : u.microsoftId = profile.oid
                                          \/ u.email = profile.email}
             admitted == \/ DomainWhitelisted(profile.email)
                         \/ profile.email = FirstAdminEmail
         IN /\ RowIds(users') # RowIds(users) => matching = {} /\ admitted
            /\ matching # {} =>
                 /\ resp'.msg = ""
                 /\ session'[s].id \in RowIds(matching)
                 /\ RowIds(users') = RowIds(users)
            /\ matching = {} /\ ~admitted =>
                 /\ resp'.msg = DomainNotAllowedText
                 /\ users' = users
                 /\ session' = session

\* C25: getOrCreateUser creates a user row only if the domain of the profile's
\* email is on the whitelist or the email is the bootstrap admin's; otherwise
\* (an email without "@" included) it fails with "Domain not allowed" and
\* creates no row, and a profile that matches an existing row by external id
\* or by email is admitted without a new row
C25_Admission == [][C25_Step]_vars

\* an address without "@" has just been refused, while a user of a whitelisted
\* domain has a row and has been admitted again under a second external id
C25_Witness ==
  /\ resp.op = "sso/callback" /\ resp.msg = DomainNotAllowedText
  /\ resp.email = SsoNoAt
  /\ \E u \in users : u.email = SsoAlice /\ u.role = "user" /\ u.microsoftId = "o3"
  /\ \E d \in allowedDomains : d.domain = DomainPio

\* a GET /callback that stores a user in the session was sent with the state
\* value that a GET /login stored in that session
C30_Step ==
  resp'.op = "sso/callback" =>
    \A s \in AdminSessions, state \in StateInputs \cup {Missing},
       code \in CodeInputs, exchange \in ExchangeInputs :
      /\ GetCallback(s, state, code, exchange) /\ UNCHANGED raceVars
      /\ resp'.status = 302 /\ resp'.msg = ""
      => Truthy(authState[s]) /\ state = authState[s]

\* C30: GET /callback places a user in the session only if the state parameter
\* of the request equals a state value that an earlier GET /login stored in
\* that session; on a session where no login was initiated no callback
\* authenticates
C30_CallbackNeedsLogin == [][C30_Step]_vars

=============================================================================
